---- MODULE Spec2Model ----
(***************************************************************************)
(* Nazuna (dados/src/connect.js): the session lifecycle manager, the       *)
(* group-event policy engine and the message intake, as state machines.    *)
(*                                                                         *)
(* Every `await` of a handler is a step of the model: a handler runs from  *)
(* one await to the next atomically (JavaScript run-to-completion), and    *)
(* handlers of different events interleave at their awaits, because the    *)
(* event emitter does not wait for the promise an async listener returns.  *)
(* A call to the network, the file system or the command router either     *)
(* succeeds or throws; which one is the environment's choice.              *)
(***************************************************************************)
EXTENDS Integers, Sequences, FiniteSets, TLC

\* ------------------------------------------------------------------ bounds

\* Membership events delivered in one behaviour.
MaxEvents == 1

\* messages.upsert batches delivered in one behaviour, and messages in a batch.
MaxBatches == 2
MaxBatchLen == 2

\* Connection `close` events delivered in one behaviour.
MaxCloses == 2

\* Membership events delivered in one behaviour when the group's file is edited
\* between them.
MaxSequence == 2

\* The clock: it advances in steps of TickSeconds up to MaxClock, and
\* MaxLookups membership events look the metadata up meanwhile.
TickSeconds == 150
MaxClock == 600
MaxLookups == 2

\* Symbols in a greeting template.
MaxTemplateLen == 3

\* The group's participants before the first event.
StartMembers == 3

\* Digits in what the operator types at the phone-number prompt.
MaxDigits == 16

\* ------------------------------------------------------- identifiers

\* A jid "<digits>@s.whatsapp.net" is modelled by its digits; the session's
\* own id "<digits>:<device>@s.whatsapp.net" by the digits before the ':'.
botNumber == <<5, 5, 1>>
Prefixed == <<5, 5, 1, 2>>      \* begins with the bot's number, is not the bot
Portugal == <<3, 5, 1, 9>>
Fake == <<1, 2, 3>>
Normal == <<5, 5, 2, 0>>
Finland == <<3, 5, 8, 4>>       \* begins with 35, is not a 351 number
Participants == {botNumber, Prefixed, Portugal, Fake, Normal, Finland}

NoAuthor == <<>>
Admin == <<5, 5, 3>>
Authors == {NoAuthor, Admin}
Someone == <<0>>                \* the literal 'alguém'

Actions == {"add", "remove", "promote", "demote"}

\* String.prototype.startsWith on the digits.
StartsWith(s, p) == Len(p) <= Len(s) /\ SubSeq(s, 1, Len(p)) = p

\* String.prototype.substring(0, n).
Substring(s, n) == SubSeq(s, 1, IF Len(s) < n THEN Len(s) ELSE n)

\* A MembershipEvent as the handler receives it (inf): only participants[0]
\* is ever read, and the author only on promote/demote.
MembershipEvents ==
    {inf \in [action : Actions, participant : Participants, author : Authors] :
        inf.action \in {"promote", "demote"} \/ inf.author = NoAuthor}

\* ------------------------------------------------------- configuration

BlacklistSets == {{}, Participants \ {botNumber}}

\* The fields of database/grupos/<from>.json the handler reads; readable is
\* whether readFile and JSON.parse succeed.
GroupConfigs ==
    [readable : {TRUE},
     x9 : BOOLEAN, antifake : BOOLEAN, antipt : BOOLEAN,
     blacklist : BlacklistSets, bemvindo : BOOLEAN,
     image : {"none", "url", "banner"}, textbv : {<<>>},
     exitEnabled : BOOLEAN, exitImage : {"none", "url"}, exitText : {<<>>}]

\* A missing or corrupt file: readFile or JSON.parse throws.
Unreadable ==
    [readable |-> FALSE,
     x9 |-> FALSE, antifake |-> FALSE, antipt |-> FALSE,
     blacklist |-> {}, bemvindo |-> FALSE, image |-> "none", textbv |-> <<>>,
     exitEnabled |-> FALSE, exitImage |-> "none", exitText |-> <<>>]

\* `let jsonGp;` before the file is read.
NoConfig == Unreadable

NoMeta == "absent"              \* groupCache.get(from) without a live entry
NullMeta == "null"              \* groupMetadata(from).catch(() => null)
TheMeta == "meta"               \* what groupMetadata(from) returns
NoLookup == "skipped"           \* the handler returned before groupCache.get

\* The TTL of a msgRetryCounterCache entry, taken for the metadata cache's.
stdTTLRetry == 120

\* new NodeCache({ stdTTL: 5 * 60 }): seconds an entry lives after its set.
stdTTL == 5 * 60

\* No set was ever made.
NeverSet == -1

\* ----------------------------------------------------------------- state

VARIABLES
    groupCache,     \* the metadata cache's entry for the group: NoMeta or the value
    cachedAt,       \* the time of the last groupCache.set, or NeverSet
    cacheExpires,   \* the time the entry expires: that of its set plus stdTTL
    cachedCount,    \* participants.length of the cached metadata
    now,            \* the clock, in seconds
    memberCount,    \* the group's participants, as the server has them
    groupFile,      \* database/grupos/<from>.json: Unreadable or a GroupConfig
    handlers,       \* one record per delivered membership event, in delivery order
    outbound,       \* the remove/send calls issued so far, in issue order
    dualMode,       \* process.argv.includes('--dual')
    socks,          \* every socket makeWASocket has returned, in creation order
    secondaryNazunaSock,    \* 0 (null) or the socket the variable refers to
    authDir,        \* per role: whether the credential directory exists
    tasks,          \* the startNazu calls and connection.update close handlers
    journal,        \* closes, directory deletions and bootstraps, in order
    exited,         \* process.exit was called
    useSecondary,   \* the round-robin selector
    messagesCache,  \* message id -> payload (NoPayload: no entry)
    upserts,        \* one record per delivered messages.upsert batch
    intakeLog,      \* the messages the intake loop took up, in order, with the
                    \* session each was forwarded through
    fmt,            \* a template on its way through the four replaceAll calls
    pairing,        \* createBotSocket between makeWASocket and its return
    updater         \* the self-update script: its step and the directories

cacheVars == <<groupCache, cachedAt, cacheExpires, cachedCount>>

policyVars == <<cacheVars, now, memberCount, groupFile, handlers, outbound>>

intakeVars == <<useSecondary, messagesCache, upserts, intakeLog>>

sessionVars == <<dualMode, socks, secondaryNazunaSock, authDir, tasks, journal, exited>>

otherVars == <<fmt, pairing, updater>>

vars == <<policyVars, intakeVars, sessionVars, otherVars>>

\* ------------------------------------------------- the rules of the handler

\* The session id taken whole, its ':<device>' part (here -1, 7) not split off.
IsSelfUnsplit(inf) == StartsWith(inf.participant, botNumber \o <<-1, 7>>)

\* inf.participants[0].startsWith(NazunaSock.user.id.split(':')[0])
IsSelf(inf) == StartsWith(inf.participant, botNumber)

X9Applies(inf, jsonGp) ==
    inf.action \in {"promote", "demote"} /\ jsonGp.x9

AllowedCodes == {<<5, 5>>, <<3, 5>>}

AntifakeApplies(inf, jsonGp) ==
    /\ inf.action = "add" /\ jsonGp.antifake
    /\ Substring(inf.participant, 2) \notin AllowedCodes

PortugalCode == <<3, 5, 1>>

\* The test made on the two digits the antifake rule reads.
AntiptAppliesTwoDigits(inf, jsonGp) ==
    /\ inf.action = "add" /\ jsonGp.antipt
    /\ Substring(inf.participant, 2) = Substring(PortugalCode, 2)

AntiptApplies(inf, jsonGp) ==
    /\ inf.action = "add" /\ jsonGp.antipt
    /\ Substring(inf.participant, 3) = PortugalCode

BlacklistApplies(inf, jsonGp) ==
    inf.action = "add" /\ inf.participant \in jsonGp.blacklist

WelcomeApplies(inf, jsonGp) ==
    inf.action = "add" /\ jsonGp.bemvindo

ExitApplies(inf, jsonGp) ==
    inf.action = "remove" /\ jsonGp.exitEnabled

\* The welcome block moved before the removal rules.
RuleOrderWelcomeFirst == <<"x9", "welcome", "antifake", "antipt", "blacklist", "exit">>

\* The rules in the order the handler's `if` statements come.
RuleOrder == <<"x9", "antifake", "antipt", "blacklist", "welcome", "exit">>

RuleIndex(r) == CHOOSE i \in 1..Len(RuleOrder) : RuleOrder[i] = r

Applies(r, inf, jsonGp) ==
    CASE r = "x9" -> X9Applies(inf, jsonGp)
      [] r = "antifake" -> AntifakeApplies(inf, jsonGp)
      [] r = "antipt" -> AntiptApplies(inf, jsonGp)
      [] r = "blacklist" -> BlacklistApplies(inf, jsonGp)
      [] r = "welcome" -> WelcomeApplies(inf, jsonGp)
      [] r = "exit" -> ExitApplies(inf, jsonGp)

\* The first await of a rule's body.
FirstAwait(r, jsonGp) ==
    CASE r = "x9" -> "x9Send"
      [] r = "antifake" -> "antifakeRemove"
      [] r = "antipt" -> "antiptRemove"
      [] r = "blacklist" -> "blacklistRemove"
      [] r = "welcome" -> IF jsonGp.image # "none" THEN "welcomePic" ELSE "welcomeSend"
      [] r = "exit" -> "exitSend"

\* Falling through the `if` statements from the k-th rule on: the await the
\* handler suspends on next, or "done" when it runs to its end.
RECURSIVE EnterFrom(_, _, _)
EnterFrom(k, inf, jsonGp) ==
    IF k > Len(RuleOrder) THEN "done"
    ELSE IF Applies(RuleOrder[k], inf, jsonGp) THEN FirstAwait(RuleOrder[k], jsonGp)
    ELSE EnterFrom(k + 1, inf, jsonGp)

\* The statement after rule r's body.
AfterRule(r, inf, jsonGp) == EnterFrom(RuleIndex(r) + 1, inf, jsonGp)

\* The blacklist body without its `return`: the handler falls through to the
\* welcome rule.
AfterBlacklistFallThrough(inf, jsonGp) == AfterRule("blacklist", inf, jsonGp)

\* The blacklist body ends in `return`, whether or not its try block threw.
AfterBlacklist(inf, jsonGp) == "done"

\* What follows an exception thrown by a call of rule r's body: the blacklist,
\* welcome and exit bodies are wrapped in try/catch, the x9, antifake and antipt
\* bodies are not, and the async handler's promise rejects with nobody
\* listening.
OnThrow(r, inf, jsonGp) ==
    CASE r \in {"x9", "antifake", "antipt"} -> "rejected"
      [] r = "blacklist" -> AfterBlacklist(inf, jsonGp)
      [] r \in {"welcome", "exit"} -> AfterRule(r, inf, jsonGp)

\* The text of each sendMessage call site, by the template it is built from.
NoText == "-"

TextOf(r) ==
    CASE r = "x9" -> "foi promovido/rebaixado por"
      [] r = "antifake" -> "removido por suspeita de numero falso"
      [] r = "antipt" -> "removido por ser um numero de Portugal"
      [] r = "blacklist" -> "removido por estar na lista negra"
      [] r = "welcome" -> "Bem-vindo(a)"
      [] r = "exit" -> "saiu do grupo"

\* The author left out of the mention list.
MentionsOfParticipant(r, inf) == <<inf.participant>>

\* mentions: [participants[0], by] for x9, [participant] everywhere else.
MentionsOf(r, inf) ==
    IF r = "x9"
    THEN <<inf.participant, IF inf.author = NoAuthor THEN Someone ELSE inf.author>>
    ELSE <<inf.participant>>

\* The @<number> tags of the default texts: the participant's, and for x9 the
\* author's after it (`por @${by.split('@')[0]}`).
NamesOf(r, inf) ==
    IF r = "x9"
    THEN <<inf.participant, IF inf.author = NoAuthor THEN Someone ELSE inf.author>>
    ELSE <<inf.participant>>

\* ------------------------------------------------------------ messages

NoPayload == "none"
MsgIds == {1, 2}

\* An inbound message as the intake reads it: key.id, message, and whether
\* key.remoteJid is set.
Messages ==
    {[id |-> 1, message |-> "a", remoteJid |-> TRUE],
     [id |-> 1, message |-> "b", remoteJid |-> TRUE],
     [id |-> 2, message |-> "a", remoteJid |-> TRUE],
     [id |-> 1, message |-> NoPayload, remoteJid |-> TRUE],
     [id |-> 2, message |-> "b", remoteJid |-> FALSE]}

Batches ==
    [type : {"notify", "append"},
     messages : UNION {[1..n -> Messages] : n \in 0..MaxBatchLen}]

EmptyCache == [id \in MsgIds |-> NoPayload]

IntakeIdle ==
    /\ useSecondary = FALSE
    /\ messagesCache = EmptyCache
    /\ upserts = <<>>
    /\ intakeLog = <<>>

\* ------------------------------------------------------------ sessions

Roles == {"primary", "secondary"}

\* DisconnectReason.loggedOut is 401; 408 is connectionLost/timedOut, 440
\* connectionReplaced.
LoggedOut == {401}
Reasons == {401, 408, 440}

Sock(role, conn) == [role |-> role, conn |-> conn]

\* One primary session, connected, and nothing in flight: single mode.
SessionSteady ==
    /\ dualMode = FALSE
    /\ socks = <<Sock("primary", "open")>>
    /\ secondaryNazunaSock = 0
    /\ authDir = [r \in Roles |-> r = "primary"]
    /\ tasks = <<>>
    /\ journal = <<>>
    /\ exited = FALSE

\* ------------------------------------------------------------ templates

\* A text is a sequence of symbols: the four placeholders and plain words.
Numerodele == "#numerodele#"
Nomedogp == "#nomedogp#"
DescToken == "#desc#"
Membros == "#membros#"
Tokens == {Numerodele, Nomedogp, DescToken, Membros}

\* String.prototype.replace with a string pattern: the first occurrence only.
RECURSIVE ReplaceFirst(_, _, _)
ReplaceFirst(text, token, value) ==
    IF text = <<>> THEN <<>>
    ELSE IF Head(text) = token THEN value \o Tail(text)
    ELSE <<Head(text)>> \o ReplaceFirst(Tail(text), token, value)

\* String.prototype.replaceAll: every occurrence, left to right; what it puts
\* in is not scanned again.
RECURSIVE ReplaceAll(_, _, _)
ReplaceAll(text, token, value) ==
    IF text = <<>> THEN <<>>
    ELSE (IF Head(text) = token THEN value ELSE <<Head(text)>>)
         \o ReplaceAll(Tail(text), token, value)

\* groupMetadata as the templates read it: subject, desc (<<>>: none) and
\* participants.length.
Meta(subject, desc, members) == [subject |-> subject, desc |-> desc, members |-> members]

\* `@${sender.split('@')[0]}`
Mention == <<"@numero">>

\* The chain of four replaceAll calls of the welcome and exit bodies.
Format(text, meta) ==
    ReplaceAll(
        ReplaceAll(
            ReplaceAll(
                ReplaceAll(text, Numerodele, Mention),
                Nomedogp, meta.subject),
            DescToken, meta.desc),
        Membros, <<ToString(meta.members)>>)

\* The length of a text in characters: a placeholder has its letters, any
\* other symbol stands for one character.
RECURSIVE Chars(_)
Chars(text) ==
    IF text = <<>> THEN 0
    ELSE (CASE Head(text) = Numerodele -> 12
            [] Head(text) = Nomedogp -> 10
            [] Head(text) = DescToken -> 6
            [] Head(text) = Membros -> 9
            [] OTHER -> 1) + Chars(Tail(text))

\* The group's subject and description, the same through every run.
Subject == <<"Grupo">>
Desc == <<"Regras">>

\* `groupMetadata.desc || 'Nenhuma'`
DescOr(desc, other) == IF desc = <<>> THEN other ELSE desc

DefaultWelcome(meta) ==
    <<"Bem-vindo(a)">> \o Mention \o <<"Você entrou no grupo">> \o meta.subject
        \o <<"Membros:", ToString(meta.members), "Descrição:">>
        \o DescOr(meta.desc, <<"Nenhuma">>)

DefaultExit(meta) ==
    Mention \o <<"saiu do grupo">> \o meta.subject
        \o <<"Membros restantes:", ToString(meta.members)>>

\* The group's own text, whatever its length.
CustomAlways(r, jsonGp) == r \in {"welcome", "exit"}

\* `jsonGp.textbv && jsonGp.textbv.length > 1`, and the same test of
\* jsonGp.exit.text: the group's own text is used when it has two characters
\* or more.
Custom(r, jsonGp) ==
    CASE r = "welcome" -> Chars(jsonGp.textbv) > 1
      [] r = "exit" -> Chars(jsonGp.exitText) > 1
      [] OTHER -> FALSE

CustomText == "custom"

\* formattedText of the welcome and exit bodies.
Body(r, h) ==
    LET meta == Meta(Subject, Desc, h.members)
    IN  CASE r = "welcome" ->
               Format(IF Custom(r, h.jsonGp) THEN h.jsonGp.textbv
                      ELSE DefaultWelcome(meta), meta)
          [] r = "exit" ->
               Format(IF Custom(r, h.jsonGp) THEN h.jsonGp.exitText
                      ELSE DefaultExit(meta), meta)
          [] OTHER -> <<>>

\* The welcome and exit messages carry `image` and `caption` in place of
\* `text` when an image is configured.
Shape(r, jsonGp) ==
    CASE r = "welcome" -> IF jsonGp.image # "none" THEN "image" ELSE "text"
      [] r = "exit" -> IF jsonGp.exitImage # "none" THEN "image" ELSE "text"
      [] OTHER -> "text"

\* message.image: the configured URL, or for the welcome the banner built
\* with the profile picture.
Image(r, h) ==
    CASE r = "welcome" /\ h.jsonGp.image = "banner" -> "banner:" \o h.profilePic
      [] r = "welcome" -> h.jsonGp.image
      [] r = "exit" -> h.jsonGp.exitImage
      [] OTHER -> "none"

\* groupParticipantsUpdate(from, [participant], 'remove'); members is the
\* group's participant count when the call is issued.
RemoveCall(i, r, h, ok) ==
    [ev |-> i, rule |-> r, call |-> "remove", ok |-> ok,
     text |-> NoText, names |-> <<>>, who |-> <<h.inf.participant>>,
     body |-> <<>>, shape |-> "none", image |-> "none",
     membros |-> h.members, members |-> memberCount]

\* sendMessage(from, message): text names the template, body is the text of
\* a greeting, shape and image tell a text message from an image with caption;
\* membros is the participants.length the texts show, members the group's
\* participant count when the call is issued.
SendCall(i, r, h, ok) ==
    [ev |-> i, rule |-> r, call |-> "send", ok |-> ok,
     text |-> IF Custom(r, h.jsonGp) THEN CustomText ELSE TextOf(r),
     names |-> NamesOf(r, h.inf), who |-> MentionsOf(r, h.inf),
     body |-> Body(r, h), shape |-> Shape(r, h.jsonGp), image |-> Image(r, h),
     membros |-> h.members, members |-> memberCount]

\* The template on its way: step k means the first k calls were made.
FormatIdle == fmt = [template |-> <<>>, meta |-> Meta(<<>>, <<>>, 0), text |-> <<>>, step |-> 4]

\* The update script is not running.
UpdaterIdle ==
    updater = [pc |-> "idle", completed |-> <<>>, dados |-> {}, backupDir |-> FALSE,
               backup |-> {}, tempDir |-> FALSE, cleaned |-> "no"]

\* No socket is being created.
PairingIdle ==
    pairing = [codeMode |-> FALSE, registered |-> TRUE, input |-> <<>>,
               phoneNumber |-> <<>>, pc |-> "idle", requests |-> <<>>, status |-> 0]

\* ---------------------------------------------------------------- Init

\* groupCache.get: the entry, unless its time has passed. The library's check
\* is `expires < Date.now()`, and reading an entry does not move its expiry.
CacheGet ==
    IF groupCache # NoMeta /\ now <= cacheExpires THEN groupCache ELSE NoMeta

\* groupCache.set(from, meta)
CacheSet(meta) ==
    /\ groupCache' = meta
    /\ cachedCount' = memberCount
    /\ cachedAt' = now
    /\ cacheExpires' = now + stdTTL

\* The handler's locals; members is groupMetadata.participants.length; got,
\* getAt and lastSetAt record its groupCache.get: what it returned, when it
\* was made and when the last set before it was.
NewHandler(inf) ==
    [inf |-> inf, pc |-> "start", groupMetadata |-> NoMeta, jsonGp |-> NoConfig,
     profilePic |-> "stock", got |-> NoLookup, getAt |-> now, lastSetAt |-> cachedAt,
     members |-> 0]

\* The caches are empty, the selector is false and no socket exists when the
\* module has been loaded; the policy engine starts with the group's file as
\* it is on disk and the metadata cached or not.
PolicyIdle ==
    /\ groupCache = NoMeta
    /\ cachedCount = 0
    /\ memberCount = StartMembers
    /\ cachedAt = NeverSet
    /\ cacheExpires = 0
    /\ now = 0
    /\ groupFile = Unreadable
    /\ handlers = <<>>
    /\ outbound = <<>>

InitPolicy ==
    /\ groupCache \in {NoMeta, TheMeta}
    /\ memberCount = StartMembers
    /\ cachedCount = IF groupCache = NoMeta THEN 0 ELSE memberCount
    /\ now = 0
    /\ cachedAt = IF groupCache = NoMeta THEN NeverSet ELSE now
    /\ cacheExpires = IF groupCache = NoMeta THEN 0 ELSE now + stdTTL
    /\ groupFile \in GroupConfigs \cup {Unreadable}
    /\ handlers = <<>>
    /\ outbound = <<>>
    /\ IntakeIdle
    /\ FormatIdle
    /\ UpdaterIdle
    /\ PairingIdle
    /\ SessionSteady

\* ------------------------------------ group-participants.update handler

Handler(i) == handlers[i]

SetHandler(i, h) == handlers' = [handlers EXCEPT ![i] = h]

\* The event is emitted: the handler runs to its first await (or returns).
\* The event tells of a change the server has made: a join, a leave.
MembersAfter(inf, count) ==
    CASE inf.action = "add" -> count + 1
      [] inf.action = "remove" /\ count > 0 -> count - 1
      [] OTHER -> count

DeliverWithin(inf, n) ==
    /\ Len(handlers) < n
    /\ LET h == NewHandler(inf) IN
       handlers' = Append(handlers,
           IF IsSelf(inf) THEN [h EXCEPT !.pc = "done"]
           ELSE IF CacheGet # NoMeta
                THEN [h EXCEPT !.pc = "readFile", !.groupMetadata = CacheGet,
                               !.got = CacheGet, !.members = cachedCount]
                ELSE [h EXCEPT !.pc = "groupMetadata", !.got = NoMeta])
    /\ memberCount' = MembersAfter(inf, memberCount)
    /\ UNCHANGED <<cacheVars, now, groupFile, outbound, intakeVars, sessionVars, otherVars>>

Deliver(inf) == DeliverWithin(inf, MaxEvents)

\* The fetch without the groupCache.set that follows it.
FetchMetadataNoSet(i, ok) ==
    /\ Handler(i).pc = "groupMetadata"
    /\ IF ok
       THEN SetHandler(i, [Handler(i) EXCEPT !.pc = "readFile", !.groupMetadata = TheMeta,
                                          !.members = memberCount])
       ELSE SetHandler(i, [Handler(i) EXCEPT !.pc = "done", !.groupMetadata = NullMeta])
    /\ UNCHANGED <<cacheVars, now, memberCount, groupFile, outbound, intakeVars, sessionVars, otherVars>>

\* await NazunaSock.groupMetadata(from).catch(() => null)
FetchMetadata(i, ok) ==
    /\ Handler(i).pc = "groupMetadata"
    /\ IF ok
       THEN /\ CacheSet(TheMeta)
            /\ SetHandler(i, [Handler(i) EXCEPT !.pc = "readFile", !.groupMetadata = TheMeta,
                                               !.members = memberCount])
       ELSE /\ UNCHANGED cacheVars
            /\ SetHandler(i, [Handler(i) EXCEPT !.pc = "done", !.groupMetadata = NullMeta])
    /\ UNCHANGED <<now, memberCount, groupFile, outbound, intakeVars, sessionVars, otherVars>>

\* The read without its try/catch.
ReadFileUncaught(i) ==
    /\ Handler(i).pc = "readFile"
    /\ IF ~groupFile.readable
       THEN SetHandler(i, [Handler(i) EXCEPT !.pc = "rejected"])
       ELSE SetHandler(i, [Handler(i) EXCEPT
                !.jsonGp = groupFile,
                !.pc = EnterFrom(1, Handler(i).inf, groupFile)])
    /\ UNCHANGED <<cacheVars, now, memberCount, groupFile, outbound, intakeVars, sessionVars, otherVars>>

\* The configuration kept in memory: read from the file for the first event,
\* taken from that copy afterwards.
ReadFileKept(i) ==
    LET kept == IF i > 1 /\ Handler(1).jsonGp.readable THEN Handler(1).jsonGp
                ELSE groupFile IN
    /\ Handler(i).pc = "readFile"
    /\ IF ~kept.readable
       THEN SetHandler(i, [Handler(i) EXCEPT !.pc = "done"])
       ELSE SetHandler(i, [Handler(i) EXCEPT
                !.jsonGp = kept,
                !.pc = EnterFrom(1, Handler(i).inf, kept)])
    /\ UNCHANGED <<cacheVars, now, memberCount, groupFile, outbound, intakeVars, sessionVars, otherVars>>

\* jsonGp = JSON.parse(await fs.readFile(groupFilePath)), or return
ReadFile(i) ==
    /\ Handler(i).pc = "readFile"
    /\ IF ~groupFile.readable
       THEN SetHandler(i, [Handler(i) EXCEPT !.pc = "done"])
       ELSE SetHandler(i, [Handler(i) EXCEPT
                !.jsonGp = groupFile,
                !.pc = EnterFrom(1, Handler(i).inf, groupFile)])
    /\ UNCHANGED <<cacheVars, now, memberCount, groupFile, outbound, intakeVars, sessionVars, otherVars>>

\* A removal that is followed by a notification in the same body.
Remove(i, r, ok) ==
    LET h == Handler(i) IN
    /\ h.pc = FirstAwait(r, h.jsonGp)
    /\ outbound' = Append(outbound, RemoveCall(i, r, h, ok))
    /\ SetHandler(i, [h EXCEPT !.pc =
           IF ok THEN r \o "Send" ELSE OnThrow(r, h.inf, h.jsonGp)])
    /\ memberCount' = IF ok /\ memberCount > 0 THEN memberCount - 1 ELSE memberCount
    /\ UNCHANGED <<cacheVars, now, groupFile, intakeVars, sessionVars, otherVars>>

\* The sendMessage that ends rule r's body.
Send(i, r, ok) ==
    LET h == Handler(i) IN
    /\ h.pc = r \o "Send"
    /\ outbound' = Append(outbound, SendCall(i, r, h, ok))
    /\ SetHandler(i, [h EXCEPT !.pc =
           IF ok THEN (IF r = "blacklist" THEN AfterBlacklist(h.inf, h.jsonGp)
                       ELSE AfterRule(r, h.inf, h.jsonGp))
           ELSE OnThrow(r, h.inf, h.jsonGp)])
    /\ UNCHANGED <<cacheVars, now, memberCount, groupFile, intakeVars, sessionVars, otherVars>>

X9Send(i, ok) == Send(i, "x9", ok)

AntifakeRemove(i, ok) == Remove(i, "antifake", ok)

AntifakeSend(i, ok) == Send(i, "antifake", ok)

AntiptRemove(i, ok) == Remove(i, "antipt", ok)

AntiptSend(i, ok) == Send(i, "antipt", ok)

BlacklistRemove(i, ok) == Remove(i, "blacklist", ok)

BlacklistSend(i, ok) == Send(i, "blacklist", ok)

\* try { profilePic = await profilePictureUrl(sender) } catch {}
WelcomePic(i, ok) ==
    LET h == Handler(i) IN
    /\ h.pc = "welcomePic"
    /\ SetHandler(i, [h EXCEPT
           !.profilePic = IF ok THEN "fetched" ELSE "stock",
           !.pc = IF h.jsonGp.image = "banner" THEN "welcomeBuild" ELSE "welcomeSend"])
    /\ UNCHANGED <<cacheVars, now, memberCount, groupFile, outbound, intakeVars, sessionVars, otherVars>>

\* await new Banner.welcomeLeave()...build(), inside the welcome try block
WelcomeBuild(i, ok) ==
    LET h == Handler(i) IN
    /\ h.pc = "welcomeBuild"
    /\ SetHandler(i, [h EXCEPT !.pc =
           IF ok THEN "welcomeSend" ELSE OnThrow("welcome", h.inf, h.jsonGp)])
    /\ UNCHANGED <<cacheVars, now, memberCount, groupFile, outbound, intakeVars, sessionVars, otherVars>>

WelcomeSend(i, ok) == Send(i, "welcome", ok)

ExitSend(i, ok) == Send(i, "exit", ok)

\* groups.update handler: refetch, cache on success
GroupsUpdate(ok) ==
    /\ IF ok THEN CacheSet(TheMeta) ELSE UNCHANGED cacheVars
    /\ UNCHANGED <<now, memberCount, groupFile, handlers, outbound, intakeVars, sessionVars, otherVars>>

NextPolicy ==
    \/ \E inf \in MembershipEvents : Deliver(inf)
    \/ \E i \in 1..Len(handlers) : ReadFile(i)
    \/ \E i \in 1..Len(handlers), ok \in BOOLEAN : FetchMetadata(i, ok)
    \/ \E i \in 1..Len(handlers), ok \in BOOLEAN : X9Send(i, ok)
    \/ \E i \in 1..Len(handlers), ok \in BOOLEAN : AntifakeRemove(i, ok)
    \/ \E i \in 1..Len(handlers), ok \in BOOLEAN : AntifakeSend(i, ok)
    \/ \E i \in 1..Len(handlers), ok \in BOOLEAN : AntiptRemove(i, ok)
    \/ \E i \in 1..Len(handlers), ok \in BOOLEAN : AntiptSend(i, ok)
    \/ \E i \in 1..Len(handlers), ok \in BOOLEAN : BlacklistRemove(i, ok)
    \/ \E i \in 1..Len(handlers), ok \in BOOLEAN : BlacklistSend(i, ok)
    \/ \E i \in 1..Len(handlers), ok \in BOOLEAN : WelcomePic(i, ok)
    \/ \E i \in 1..Len(handlers), ok \in BOOLEAN : WelcomeBuild(i, ok)
    \/ \E i \in 1..Len(handlers), ok \in BOOLEAN : WelcomeSend(i, ok)
    \/ \E i \in 1..Len(handlers), ok \in BOOLEAN : ExitSend(i, ok)
    \/ \E ok \in BOOLEAN : GroupsUpdate(ok)

SpecPolicy == InitPolicy /\ [][NextPolicy]_vars

\* ------------------------- consecutive events, the group's file edited

\* The files an edit of the group's settings leaves on disk: every rule on
\* (everybody blacklisted), the announcements and greetings (banner welcome)
\* with anti-pt, nothing on; or no file.
AllOn ==
    [readable |-> TRUE, x9 |-> TRUE, antifake |-> TRUE, antipt |-> TRUE,
     blacklist |-> Participants \ {botNumber}, bemvindo |-> TRUE, image |-> "url",
     textbv |-> <<>>, exitEnabled |-> TRUE, exitImage |-> "url", exitText |-> <<>>]

Greetings ==
    [readable |-> TRUE, x9 |-> TRUE, antifake |-> FALSE, antipt |-> TRUE,
     blacklist |-> {}, bemvindo |-> TRUE, image |-> "banner",
     textbv |-> <<>>, exitEnabled |-> TRUE, exitImage |-> "none", exitText |-> <<>>]

AllOff ==
    [readable |-> TRUE, x9 |-> FALSE, antifake |-> FALSE, antipt |-> FALSE,
     blacklist |-> {}, bemvindo |-> FALSE, image |-> "none",
     textbv |-> <<>>, exitEnabled |-> FALSE, exitImage |-> "none", exitText |-> <<>>]

EditedConfigs == {AllOn, Greetings, AllOff, Unreadable}

InitEvents ==
    /\ groupCache \in {NoMeta, TheMeta}
    /\ memberCount = StartMembers
    /\ cachedCount = IF groupCache = NoMeta THEN 0 ELSE memberCount
    /\ now = 0
    /\ cachedAt = IF groupCache = NoMeta THEN NeverSet ELSE now
    /\ cacheExpires = IF groupCache = NoMeta THEN 0 ELSE now + stdTTL
    /\ groupFile \in EditedConfigs
    /\ handlers = <<>>
    /\ outbound = <<>>
    /\ IntakeIdle
    /\ FormatIdle
    /\ UpdaterIdle
    /\ PairingIdle
    /\ SessionSteady

\* The events of a sequence: joins, leaves and promotions, of the bot and of
\* numbers that begin with the bot's, with 351, with 55 and with another code.
SequencedEvents ==
    {inf \in MembershipEvents :
        /\ inf.action # "demote" /\ inf.author = NoAuthor
        /\ inf.participant # Finland}

DeliverNext(inf) == DeliverWithin(inf, MaxSequence)

\* A groups.update event that comes before the last event of the sequence.
GroupsUpdateNext(ok) == Len(handlers) < MaxSequence /\ GroupsUpdate(ok)

\* The command router (or an operator) rewrites database/grupos/<from>.json,
\* or removes it.
EditFile(cfg) ==
    /\ cfg # groupFile
    /\ groupFile' = cfg
    /\ UNCHANGED <<cacheVars, now, memberCount, handlers, outbound, intakeVars, sessionVars, otherVars>>

NextEvents ==
    \/ \E inf \in SequencedEvents : DeliverNext(inf)
    \/ \E cfg \in EditedConfigs : EditFile(cfg)
    \/ \E i \in 1..Len(handlers) : ReadFile(i)
    \/ \E i \in 1..Len(handlers), ok \in BOOLEAN : FetchMetadata(i, ok)
    \/ \E i \in 1..Len(handlers), ok \in BOOLEAN : X9Send(i, ok)
    \/ \E i \in 1..Len(handlers), ok \in BOOLEAN : AntifakeRemove(i, ok)
    \/ \E i \in 1..Len(handlers), ok \in BOOLEAN : AntifakeSend(i, ok)
    \/ \E i \in 1..Len(handlers), ok \in BOOLEAN : AntiptRemove(i, ok)
    \/ \E i \in 1..Len(handlers), ok \in BOOLEAN : AntiptSend(i, ok)
    \/ \E i \in 1..Len(handlers), ok \in BOOLEAN : BlacklistRemove(i, ok)
    \/ \E i \in 1..Len(handlers), ok \in BOOLEAN : BlacklistSend(i, ok)
    \/ \E i \in 1..Len(handlers), ok \in BOOLEAN : WelcomePic(i, ok)
    \/ \E i \in 1..Len(handlers), ok \in BOOLEAN : WelcomeBuild(i, ok)
    \/ \E i \in 1..Len(handlers), ok \in BOOLEAN : WelcomeSend(i, ok)
    \/ \E i \in 1..Len(handlers), ok \in BOOLEAN : ExitSend(i, ok)
    \/ \E ok \in BOOLEAN : GroupsUpdateNext(ok)

SpecEvents == InitEvents /\ [][NextEvents]_vars

\* ------------------------------------- greetings, the group's own texts

\* The texts a group may have set: none, a single character, one with
\* placeholders.
GreetingTexts == {<<>>, <<"!">>, <<Numerodele, "+", Membros>>}

\* Groups with the greetings and anti-fake set up.
GreetingConfigs ==
    [readable : {TRUE},
     x9 : {FALSE}, antifake : BOOLEAN, antipt : {FALSE},
     blacklist : BlacklistSets, bemvindo : BOOLEAN,
     image : {"none", "url", "banner"}, textbv : GreetingTexts,
     exitEnabled : BOOLEAN, exitImage : {"none", "url"}, exitText : GreetingTexts]

GreetingEvents == {inf \in MembershipEvents : inf.action \in {"add", "remove"}}

InitGreetings ==
    /\ groupCache \in {NoMeta, TheMeta}
    /\ memberCount = StartMembers
    /\ cachedCount = IF groupCache = NoMeta THEN 0 ELSE memberCount
    /\ now = 0
    /\ cachedAt = IF groupCache = NoMeta THEN NeverSet ELSE now
    /\ cacheExpires = IF groupCache = NoMeta THEN 0 ELSE now + stdTTL
    /\ groupFile \in GreetingConfigs
    /\ handlers = <<>>
    /\ outbound = <<>>
    /\ IntakeIdle
    /\ FormatIdle
    /\ UpdaterIdle
    /\ PairingIdle
    /\ SessionSteady

NextGreetings ==
    \/ \E inf \in GreetingEvents : Deliver(inf)
    \/ \E i \in 1..Len(handlers) : ReadFile(i)
    \/ \E i \in 1..Len(handlers), ok \in BOOLEAN : FetchMetadata(i, ok)
    \/ \E i \in 1..Len(handlers), ok \in BOOLEAN : AntifakeRemove(i, ok)
    \/ \E i \in 1..Len(handlers), ok \in BOOLEAN : AntifakeSend(i, ok)
    \/ \E i \in 1..Len(handlers), ok \in BOOLEAN : BlacklistRemove(i, ok)
    \/ \E i \in 1..Len(handlers), ok \in BOOLEAN : BlacklistSend(i, ok)
    \/ \E i \in 1..Len(handlers), ok \in BOOLEAN : WelcomePic(i, ok)
    \/ \E i \in 1..Len(handlers), ok \in BOOLEAN : WelcomeBuild(i, ok)
    \/ \E i \in 1..Len(handlers), ok \in BOOLEAN : WelcomeSend(i, ok)
    \/ \E i \in 1..Len(handlers), ok \in BOOLEAN : ExitSend(i, ok)
    \/ \E ok \in BOOLEAN : GroupsUpdate(ok)

SpecGreetings == InitGreetings /\ [][NextGreetings]_vars

\* ------------------------------------------ the metadata cache and the clock

\* The module is loaded, the cache is empty and the group has no file.
InitCache ==
    /\ PolicyIdle
    /\ IntakeIdle
    /\ FormatIdle
    /\ UpdaterIdle
    /\ PairingIdle
    /\ SessionSteady

\* The lookup reads the event's participant only.
LookupEvents == {inf \in MembershipEvents : inf.action = "add"}

Lookup(inf) == DeliverWithin(inf, MaxLookups)

\* Time passes.
Tick ==
    /\ now < MaxClock
    /\ now' = now + TickSeconds
    /\ UNCHANGED <<cacheVars, memberCount, groupFile, handlers, outbound, intakeVars, sessionVars, otherVars>>

NextCache ==
    \/ \E inf \in LookupEvents : Lookup(inf)
    \/ \E i \in 1..Len(handlers), ok \in BOOLEAN : FetchMetadata(i, ok)
    \/ \E i \in 1..Len(handlers) : ReadFile(i)
    \/ \E ok \in BOOLEAN : GroupsUpdate(ok)
    \/ Tick

SpecCache == InitCache /\ [][NextCache]_vars

\* ------------------------------------------------ placeholder substitution

RECURSIVE SeqsUpTo(_, _)
SeqsUpTo(S, n) ==
    IF n = 0 THEN {<<>>}
    ELSE SeqsUpTo(S, n - 1) \cup
         {Append(t, x) : t \in {u \in SeqsUpTo(S, n - 1) : Len(u) = n - 1}, x \in S}

\* textbv or exit.text: placeholders and words.
Templates == SeqsUpTo(Tokens \cup {"Oi"}, MaxTemplateLen)

\* A group's subject and description are free text: they may spell a
\* placeholder.
Subjects == {<<"Grupo">>, <<Membros>>, <<Numerodele>>}
Descriptions == {<<>>, <<"Regras">>, <<Nomedogp>>}

InitTemplate ==
    /\ PolicyIdle
    /\ IntakeIdle
    /\ SessionSteady
    /\ PairingIdle
    /\ UpdaterIdle
    /\ \E t \in Templates, subject \in Subjects, desc \in Descriptions :
          fmt = [template |-> t, meta |-> Meta(subject, desc, 10), text |-> t, step |-> 0]

ReplaceStep(k, token, value) ==
    /\ fmt.step = k - 1
    /\ fmt' = [fmt EXCEPT !.text = ReplaceAll(fmt.text, token, value), !.step = k]
    /\ UNCHANGED <<policyVars, intakeVars, sessionVars, pairing, updater>>

ReplaceNumerodele == ReplaceStep(1, Numerodele, Mention)

ReplaceNomedogp == ReplaceStep(2, Nomedogp, fmt.meta.subject)

ReplaceDesc == ReplaceStep(3, DescToken, fmt.meta.desc)

ReplaceMembros == ReplaceStep(4, Membros, <<ToString(fmt.meta.members)>>)

NextTemplate ==
    \/ ReplaceNumerodele
    \/ ReplaceNomedogp
    \/ ReplaceDesc
    \/ ReplaceMembros

SpecTemplate == InitTemplate /\ [][NextTemplate]_vars

\* ------------------------------------------------------- pairing by code

\* What the operator types is a sequence of characters: a digit is its
\* value, any other character is NonDigit.
NonDigit == -1

IsDigit(c) == c \in 0..9

Digits(n) == [k \in 1..n |-> k % 10]

\* The answers tried: digits alone, after a `+`, with a blank and a dash
\* after the second digit, and with a letter at the end.
Inputs ==
    UNION {{Digits(n),
            <<NonDigit>> \o Digits(n),
            Substring(Digits(n), 2) \o <<NonDigit, NonDigit>> \o SubSeq(Digits(n), 3, n),
            Digits(n) \o <<NonDigit>>} : n \in 0..MaxDigits}

\* The answer taken as typed.
KeepAll(text) == text

\* phoneNumber.replace(/\D/g, '')
StripNonDigits(text) == SelectSeq(text, IsDigit)

\* /^\d{10,15}$/.test(phoneNumber)
ValidPhone(phoneNumber) ==
    /\ Len(phoneNumber) >= 10 /\ Len(phoneNumber) <= 15
    /\ \A k \in 1..Len(phoneNumber) : IsDigit(phoneNumber[k])

\* makeWASocket has returned: --code was given or not, the stored credentials
\* are registered or not.
InitPairing ==
    /\ pairing \in [codeMode : BOOLEAN, registered : BOOLEAN, input : {<<>>},
                    phoneNumber : {<<>>}, pc : {"created"}, requests : {<<>>},
                    status : {0}]
    /\ PolicyIdle
    /\ IntakeIdle
    /\ FormatIdle
    /\ UpdaterIdle
    /\ SessionSteady

\* if (codeMode && !NazunaSock.authState.creds.registered): the prompt
Ask ==
    /\ pairing.pc = "created"
    /\ pairing.codeMode /\ ~pairing.registered
    /\ pairing' = [pairing EXCEPT !.pc = "ask"]
    /\ UNCHANGED <<policyVars, intakeVars, sessionVars, fmt, updater>>

\* The test fails: no prompt, the socket's handlers are registered.
NoPrompt ==
    /\ pairing.pc = "created"
    /\ ~(pairing.codeMode /\ ~pairing.registered)
    /\ pairing' = [pairing EXCEPT !.pc = "listening"]
    /\ UNCHANGED <<policyVars, intakeVars, sessionVars, fmt, updater>>

\* The operator answers: the non-digits are stripped, and an answer that is
\* not 10 to 15 digits ends the process with status 1.
Answer(input) ==
    /\ pairing.pc = "ask"
    /\ LET phoneNumber == StripNonDigits(input) IN
       pairing' = [pairing EXCEPT
           !.input = input,
           !.phoneNumber = phoneNumber,
           !.pc = IF ValidPhone(phoneNumber) THEN "request" ELSE "exited",
           !.status = IF ValidPhone(phoneNumber) THEN 0 ELSE 1]
    /\ UNCHANGED <<policyVars, intakeVars, sessionVars, fmt, updater>>

\* await NazunaSock.requestPairingCode(phoneNumber, 'N4ZUN4V4'): a throw
\* rejects createBotSocket.
RequestPairingCode(ok) ==
    /\ pairing.pc = "request"
    /\ pairing' = [pairing EXCEPT
           !.requests = Append(@, pairing.phoneNumber),
           !.pc = IF ok THEN "listening" ELSE "rejected"]
    /\ UNCHANGED <<policyVars, intakeVars, sessionVars, fmt, updater>>

NextPairing ==
    \/ Ask
    \/ NoPrompt
    \/ \E input \in Inputs : Answer(input)
    \/ \E ok \in BOOLEAN : RequestPairingCode(ok)

SpecPairing == InitPairing /\ [][NextPairing]_vars

\* ------------------------------------------------- the self-update script

\* What the script keeps of an installation: dados/database,
\* dados/src/config.json and dados/midias.
Items == {"database", "config.json", "midias"}

\* const steps = [...]
Steps ==
    <<"checkRequirements", "confirmUpdate", "createBackup", "downloadUpdate",
      "cleanOldFiles", "applyUpdate", "restoreBackup", "installDependencies",
      "cleanup">>

\* The awaits of main, in order: the steps, the request for the last commit,
\* the write of updateSave.json.
AfterStep(name) ==
    LET k == CHOOSE j \in 1..Len(Steps) : Steps[j] = name
    IN  IF k < Len(Steps) THEN Steps[k + 1] ELSE "fetchCommit"

\* `await step.func(); completedSteps++`
Completed(u) == [u EXCEPT !.completed = Append(@, u.pc), !.pc = AfterStep(u.pc)]

\* A throw reaches main's catch: the messages, then process.exit(1).
Thrown(u) == [u EXCEPT !.pc = "exit1"]

\* main has got to its first step: the installation has some of its data,
\* temp_nazuna is left over from an earlier run or not, and the backup
\* directory, named after the time, is not there.
InitUpdate ==
    /\ updater \in [pc : {"checkRequirements"}, completed : {<<>>}, dados : SUBSET Items,
                    backupDir : {FALSE}, backup : {{}}, tempDir : BOOLEAN,
                    cleaned : {"no"}]
    /\ PolicyIdle
    /\ IntakeIdle
    /\ FormatIdle
    /\ PairingIdle
    /\ SessionSteady

UpdaterStep(u) ==
    /\ updater' = u
    /\ UNCHANGED <<policyVars, intakeVars, sessionVars, fmt, pairing>>

\* git or npm missing: process.exit(1) in the step itself.
CheckRequirements(ok) ==
    /\ updater.pc = "checkRequirements"
    /\ UpdaterStep(IF ok THEN Completed(updater) ELSE Thrown(updater))

\* The countdown: it always resolves.
ConfirmUpdate ==
    /\ updater.pc = "confirmUpdate"
    /\ UpdaterStep(Completed(updater))

\* The directories are made, then what exists is copied; a failure of an
\* mkdir or of a copy is logged and thrown again.
CreateBackup(outcome) ==
    /\ updater.pc = "createBackup"
    /\ UpdaterStep(
          CASE outcome = "ok" ->
                 Completed([updater EXCEPT !.backupDir = TRUE, !.backup = updater.dados])
            [] outcome = "mkdir" -> Thrown(updater)
            [] outcome = "copy" -> Thrown([updater EXCEPT !.backupDir = TRUE]))

\* temp_nazuna is removed if there, then cloned into.
DownloadUpdate(ok) ==
    /\ updater.pc = "downloadUpdate"
    /\ UpdaterStep(IF ok THEN Completed([updater EXCEPT !.tempDir = TRUE])
                   ELSE Thrown([updater EXCEPT !.tempDir = FALSE]))

\* .git, package.json, package-lock.json, then everything under dados; a
\* failure on the way leaves what was deleted so far deleted.
CleanOldFiles(outcome) ==
    /\ updater.pc = "cleanOldFiles"
    /\ UpdaterStep(
          CASE outcome = "ok" ->
                 Completed([updater EXCEPT !.dados = {}, !.cleaned = "yes"])
            [] outcome = "first" -> Thrown(updater)
            [] outcome = "partway" -> Thrown([updater EXCEPT !.cleaned = "partly"]))

\* temp_nazuna is copied over the installation and removed.
ApplyUpdate(ok) ==
    /\ updater.pc = "applyUpdate"
    /\ UpdaterStep(IF ok THEN Completed([updater EXCEPT !.tempDir = FALSE])
                   ELSE Thrown(updater))

RestoreBackup(ok) ==
    /\ updater.pc = "restoreBackup"
    /\ UpdaterStep(IF ok THEN Completed([updater EXCEPT !.dados = @ \cup updater.backup])
                   ELSE Thrown(updater))

InstallDependencies(ok) ==
    /\ updater.pc = "installDependencies"
    /\ UpdaterStep(IF ok THEN Completed(updater) ELSE Thrown(updater))

\* The backup directory is removed; a failure is logged and not thrown.
Cleanup(ok) ==
    /\ updater.pc = "cleanup"
    /\ UpdaterStep(IF ok THEN Completed([updater EXCEPT !.backupDir = FALSE, !.backup = {}])
                   ELSE Completed(updater))

\* fetch(.../commits?per_page=1): a rejected fetch or a response that is not
\* ok throws.
FetchCommit(ok) ==
    /\ updater.pc = "fetchCommit"
    /\ UpdaterStep(IF ok THEN [updater EXCEPT !.pc = "saveUpdate"] ELSE Thrown(updater))

\* fs.writeFile(.../database/updateSave.json)
SaveUpdate(ok) ==
    /\ updater.pc = "saveUpdate"
    /\ UpdaterStep(IF ok THEN [updater EXCEPT !.pc = "finished"] ELSE Thrown(updater))

\* SIGINT or SIGTERM: process.exit(0)
Shutdown ==
    /\ updater.pc \in {Steps[k] : k \in 1..Len(Steps)} \cup {"fetchCommit", "saveUpdate"}
    /\ UpdaterStep([updater EXCEPT !.pc = "exit0"])

NextUpdate ==
    \/ \E ok \in BOOLEAN : CheckRequirements(ok)
    \/ ConfirmUpdate
    \/ \E outcome \in {"ok", "mkdir", "copy"} : CreateBackup(outcome)
    \/ \E ok \in BOOLEAN : DownloadUpdate(ok)
    \/ \E outcome \in {"ok", "first", "partway"} : CleanOldFiles(outcome)
    \/ \E ok \in BOOLEAN : ApplyUpdate(ok)
    \/ \E ok \in BOOLEAN : RestoreBackup(ok)
    \/ \E ok \in BOOLEAN : InstallDependencies(ok)
    \/ \E ok \in BOOLEAN : Cleanup(ok)
    \/ \E ok \in BOOLEAN : FetchCommit(ok)
    \/ \E ok \in BOOLEAN : SaveUpdate(ok)
    \/ Shutdown

SpecUpdate == InitUpdate /\ [][NextUpdate]_vars

\* ------------------------------------------------ messages.upsert handler

\* dualMode && useSecondary && secondarySocket?.user ? secondarySocket : NazunaSock
\* `secondarySocket` is declared nowhere (the module's variable is
\* secondaryNazunaSock): evaluating it throws a ReferenceError, which `?.`
\* does not prevent. && short-circuits, so it is evaluated only in dual mode
\* with the selector true.
ActiveNazunaSock(dual, selector) ==
    IF dual /\ selector THEN "ReferenceError" ELSE "primary"

\* The chat id not looked at.
QualifiesByPayload(info) == info.message # NoPayload

\* !info.message || !info.key.remoteJid: skipped
Qualifies(info) == info.message # NoPayload /\ info.remoteJid

\* The first payload of an id kept.
MessagesCacheSetOnce(cache, info) ==
    IF cache[info.id] = NoPayload THEN [cache EXCEPT ![info.id] = info.message]
    ELSE cache

\* messagesCache.set(info.key.id, info.message)
MessagesCacheSet(cache, info) == [cache EXCEPT ![info.id] = info.message]

\* The for loop from the k-th message of the batch on, up to the next await
\* (the router was called) or to the end of the handler: the loop's end, or
\* the catch block after a throw. st carries the module state the loop
\* changes: cache, selector, log.
RECURSIVE RunLoop(_, _, _, _)
RunLoop(b, k, messages, st) ==
    IF k > Len(messages) THEN [st EXCEPT !.pc = "done", !.idx = k]
    ELSE
        LET info == messages[k] IN
        IF ~Qualifies(info) THEN RunLoop(b, k + 1, messages, st)
        ELSE
            LET cache == MessagesCacheSet(st.cache, info)
                via == ActiveNazunaSock(dualMode, st.selector)
                entry == [batch |-> b, idx |-> k, id |-> info.id,
                          message |-> info.message, via |-> via,
                          cached |-> cache[info.id]]
            IN  IF via = "ReferenceError"
                THEN [st EXCEPT !.cache = cache, !.log = Append(st.log, entry),
                                !.pc = "done", !.idx = k, !.caught = "ReferenceError"]
                ELSE [st EXCEPT !.cache = cache, !.log = Append(st.log, entry),
                                !.selector = ~st.selector,
                                !.pc = "router", !.idx = k]

LoopState ==
    [cache |-> messagesCache, selector |-> useSecondary, log |-> intakeLog,
     pc |-> "done", idx |-> 0, caught |-> "nothing"]

Commit(b, m, st) ==
    /\ messagesCache' = st.cache
    /\ useSecondary' = st.selector
    /\ intakeLog' = st.log
    /\ upserts' =
          LET h == [type |-> m.type, messages |-> m.messages, idx |-> st.idx,
                    pc |-> st.pc, caught |-> st.caught]
          IN IF b > Len(upserts) THEN Append(upserts, h)
             ELSE [upserts EXCEPT ![b] = h]

\* The batch is emitted: the handler returns at once unless the batch is a
\* 'notify' one, and else runs its loop to the first router call.
Upsert(m) ==
    /\ Len(upserts) < MaxBatches
    /\ LET b == Len(upserts) + 1 IN
       IF m.type # "notify"
       THEN Commit(b, m, LoopState)
       ELSE Commit(b, m, RunLoop(b, 1, m.messages, LoopState))
    /\ UNCHANGED <<policyVars, sessionVars, otherVars>>

\* await indexModule(...) settles: the loop goes on, or the catch block around
\* the loop ends the handler.
RouterReturns(b, ok) ==
    /\ upserts[b].pc = "router"
    /\ LET m == [type |-> upserts[b].type, messages |-> upserts[b].messages] IN
       IF ok
       THEN Commit(b, m, RunLoop(b, upserts[b].idx + 1, m.messages, LoopState))
       ELSE Commit(b, m, [LoopState EXCEPT !.idx = upserts[b].idx, !.caught = "router"])
    /\ UNCHANGED <<policyVars, sessionVars, otherVars>>

\* setInterval(() => messagesCache.clear(), 600000)
ClearMessagesCache ==
    /\ messagesCache' = EmptyCache
    /\ UNCHANGED <<useSecondary, upserts, intakeLog, policyVars, sessionVars, otherVars>>

\* The sessions the intake may find: the primary open; in dual mode the
\* secondary absent, connecting or open.
InitIntake ==
    /\ PolicyIdle
    /\ IntakeIdle
    /\ FormatIdle
    /\ UpdaterIdle
    /\ PairingIdle
    /\ dualMode \in BOOLEAN
    /\ \E second \in {"none", "connecting", "open"} :
          /\ (second # "none") => dualMode
          /\ socks = IF second = "none" THEN <<Sock("primary", "open")>>
                     ELSE <<Sock("primary", "open"), Sock("secondary", second)>>
          /\ secondaryNazunaSock = IF second = "none" THEN 0 ELSE 2
          /\ authDir = [r \in Roles |-> r = "primary" \/ second # "none"]
    /\ tasks = <<>>
    /\ journal = <<>>
    /\ exited = FALSE

NextIntake ==
    \/ \E m \in Batches : Upsert(m)
    \/ \E b \in 1..Len(upserts), ok \in BOOLEAN : RouterReturns(b, ok)
    \/ ClearMessagesCache

SpecIntake == InitIntake /\ [][NextIntake]_vars

\* ------------------------------------------------------ session manager

JClose(role, reason) == [what |-> "close", role |-> role, reason |-> reason]

JDeleted(role) == [what |-> "deleted", role |-> role, reason |-> 0]

JBootstrap(role) == [what |-> "bootstrap", role |-> role, reason |-> 0]

\* A call of startNazu: suspended in createBotSocket for the primary, then
\* (dual mode) for the secondary.
StartNazuTask == [kind |-> "startNazu", pc |-> "primary", sock |-> 0, role |-> "primary",
                  reason |-> 0, started |-> FALSE]

\* A connection.update handler that got `close` from socket s.
CloseTask(s, reason, pc, started) ==
    [kind |-> "close", pc |-> pc, sock |-> s, role |-> socks[s].role,
     reason |-> reason, started |-> started]

\* waitForConnection(primarySocket), waitForConnection(secondarySocket):
\* neither name is declared (the locals are primaryNazunaSock and
\* secondaryNazunaSock), so building the argument list throws a
\* ReferenceError, the inner catch logs it, and startNazu ends without the
\* 'Modo dual pronto' line.
AfterSecondaryBootstrap == "done"

\* The module is loaded and startNazu() was called: it is suspended in the
\* primary's createBotSocket. The credential directories exist or not.
InitSession ==
    /\ PolicyIdle
    /\ IntakeIdle
    /\ FormatIdle
    /\ UpdaterIdle
    /\ PairingIdle
    /\ dualMode \in BOOLEAN
    /\ socks = <<>>
    /\ secondaryNazunaSock = 0
    /\ authDir \in [Roles -> BOOLEAN]
    /\ tasks = <<StartNazuTask>>
    /\ journal = <<JBootstrap("primary")>>
    /\ exited = FALSE

NewSock(role) ==
    /\ socks' = Append(socks, Sock(role, "connecting"))
    /\ authDir' = [authDir EXCEPT ![role] = TRUE]

\* startNazu: createBotSocket(AUTH_DIR_PRIMARY) settles. A throw reaches the
\* outer catch: process.exit(1).
StartPrimaryDone(t, ok) ==
    /\ ~exited
    /\ tasks[t].kind = "startNazu" /\ tasks[t].pc = "primary"
    /\ IF ok
       THEN /\ NewSock("primary")
            /\ tasks' = [tasks EXCEPT ![t].sock = Len(socks) + 1,
                                      ![t].pc = IF dualMode THEN "secondary" ELSE "done"]
            /\ journal' = IF dualMode THEN Append(journal, JBootstrap("secondary"))
                          ELSE journal
            /\ exited' = exited
       ELSE /\ tasks' = [tasks EXCEPT ![t].pc = "exited"]
            /\ exited' = TRUE
            /\ UNCHANGED <<socks, authDir, journal>>
    /\ UNCHANGED <<dualMode, secondaryNazunaSock, policyVars, intakeVars, otherVars>>

\* startNazu, dual mode: createBotSocket(AUTH_DIR_SECONDARY) settles. A throw
\* reaches the inner catch: the bot goes on with the primary only.
StartSecondaryDone(t, ok) ==
    /\ ~exited
    /\ tasks[t].kind = "startNazu" /\ tasks[t].pc = "secondary"
    /\ IF ok
       THEN /\ NewSock("secondary")
            /\ secondaryNazunaSock' = Len(socks) + 1
            /\ tasks' = [tasks EXCEPT ![t].pc = AfterSecondaryBootstrap]
       ELSE /\ tasks' = [tasks EXCEPT ![t].pc = "done"]
            /\ UNCHANGED <<socks, authDir, secondaryNazunaSock>>
    /\ UNCHANGED <<dualMode, journal, exited, policyVars, intakeVars, otherVars>>

\* connection.update { connection: 'open' }: the handlers only log.
SockOpen(s) ==
    /\ ~exited
    /\ socks[s].conn = "connecting"
    /\ socks' = [socks EXCEPT ![s].conn = "open"]
    /\ UNCHANGED <<dualMode, secondaryNazunaSock, authDir, tasks, journal, exited,
                   policyVars, intakeVars, otherVars>>

NumCloses == Cardinality({t \in 1..Len(tasks) : tasks[t].kind = "close"})

DeletesOn(reason) == reason \in LoggedOut

\* connection.update { connection: 'close' } on the primary's socket: the
\* handler deletes the directory first on a logged-out reason (an await), and
\* else goes on at once: NazunaSock.end(), then startNazu(), not awaited.
PrimaryClose(s, reason) ==
    /\ ~exited
    /\ NumCloses < MaxCloses
    /\ socks[s].role = "primary" /\ socks[s].conn # "close"
    /\ socks' = [socks EXCEPT ![s].conn = "close"]
    /\ IF DeletesOn(reason)
       THEN /\ tasks' = Append(tasks, CloseTask(s, reason, "rm", FALSE))
            /\ journal' = Append(journal, JClose("primary", reason))
       ELSE /\ tasks' = tasks \o <<CloseTask(s, reason, "done", TRUE), StartNazuTask>>
            /\ journal' = journal \o <<JClose("primary", reason), JBootstrap("primary")>>
    /\ UNCHANGED <<dualMode, secondaryNazunaSock, authDir, exited, policyVars, intakeVars, otherVars>>

\* The secondary's handler: the same deletion, then setTimeout(..., 5000).
SecondaryClose(s, reason) ==
    /\ ~exited
    /\ NumCloses < MaxCloses
    /\ socks[s].role = "secondary" /\ socks[s].conn # "close"
    /\ socks' = [socks EXCEPT ![s].conn = "close"]
    /\ tasks' = Append(tasks,
          CloseTask(s, reason, IF DeletesOn(reason) THEN "rm" ELSE "timer", FALSE))
    /\ journal' = Append(journal, JClose("secondary", reason))
    /\ UNCHANGED <<dualMode, secondaryNazunaSock, authDir, exited, policyVars, intakeVars, otherVars>>

\* await fs.rm(AUTH_DIR_..., { recursive: true, force: true }) settles. It is
\* outside any try block: a throw rejects the handler's promise and nothing
\* after it runs.
RmDone(t, ok) ==
    /\ ~exited
    /\ tasks[t].kind = "close" /\ tasks[t].pc = "rm"
    /\ IF ~ok
       THEN /\ tasks' = [tasks EXCEPT ![t].pc = "rejected"]
            /\ UNCHANGED <<authDir, journal>>
       ELSE /\ authDir' = [authDir EXCEPT ![tasks[t].role] = FALSE]
            /\ IF tasks[t].role = "primary"
               THEN /\ tasks' = Append([tasks EXCEPT ![t].pc = "done", ![t].started = TRUE],
                                       StartNazuTask)
                    /\ journal' = journal \o <<JDeleted("primary"), JBootstrap("primary")>>
               ELSE /\ tasks' = [tasks EXCEPT ![t].pc = "timer"]
                    /\ journal' = Append(journal, JDeleted("secondary"))
    /\ UNCHANGED <<dualMode, socks, secondaryNazunaSock, exited, policyVars, intakeVars, otherVars>>

\* The timeout's callback runs: createBotSocket(AUTH_DIR_SECONDARY, false).
TimerFires(t) ==
    /\ ~exited
    /\ tasks[t].kind = "close" /\ tasks[t].pc = "timer"
    /\ tasks' = [tasks EXCEPT ![t].pc = "reconnect", ![t].started = TRUE]
    /\ journal' = Append(journal, JBootstrap("secondary"))
    /\ UNCHANGED <<dualMode, socks, secondaryNazunaSock, authDir, exited,
                   policyVars, intakeVars, otherVars>>

\* The callback's createBotSocket settles; a throw is caught and logged.
ReconnectDone(t, ok) ==
    /\ ~exited
    /\ tasks[t].kind = "close" /\ tasks[t].pc = "reconnect"
    /\ tasks' = [tasks EXCEPT ![t].pc = "done"]
    /\ IF ok
       THEN NewSock("secondary") /\ secondaryNazunaSock' = Len(socks) + 1
       ELSE UNCHANGED <<socks, authDir, secondaryNazunaSock>>
    /\ UNCHANGED <<dualMode, journal, exited, policyVars, intakeVars, otherVars>>

NextSession ==
    \/ \E t \in 1..Len(tasks), ok \in BOOLEAN : StartPrimaryDone(t, ok)
    \/ \E t \in 1..Len(tasks), ok \in BOOLEAN : StartSecondaryDone(t, ok)
    \/ \E s \in 1..Len(socks) : SockOpen(s)
    \/ \E s \in 1..Len(socks), reason \in Reasons : PrimaryClose(s, reason)
    \/ \E s \in 1..Len(socks), reason \in Reasons : SecondaryClose(s, reason)
    \/ \E t \in 1..Len(tasks), ok \in BOOLEAN : RmDone(t, ok)
    \/ \E t \in 1..Len(tasks) : TimerFires(t)
    \/ \E t \in 1..Len(tasks), ok \in BOOLEAN : ReconnectDone(t, ok)

SpecSession == InitSession /\ [][NextSession]_vars

\* What the process does by itself: a pending createBotSocket or fs.rm
\* settles, a timeout set fires. The closes come from outside.
Settle ==
    \/ \E t \in 1..Len(tasks), ok \in BOOLEAN : StartPrimaryDone(t, ok)
    \/ \E t \in 1..Len(tasks), ok \in BOOLEAN : StartSecondaryDone(t, ok)
    \/ \E t \in 1..Len(tasks), ok \in BOOLEAN : RmDone(t, ok)
    \/ \E t \in 1..Len(tasks) : TimerFires(t)
    \/ \E t \in 1..Len(tasks), ok \in BOOLEAN : ReconnectDone(t, ok)

\* Every promise settles and every timeout fires.
SpecSessionLive == SpecSession /\ WF_vars(Settle)

\* ------------------------------------------------ policy engine: claims

EventIds == 1..Len(handlers)

\* The calls event i's handler issued, in issue order.
CallsOf(i) == SelectSeq(outbound, LAMBDA c : c.ev = i)

CallsOfKind(i, call) == SelectSeq(outbound, LAMBDA c : c.ev = i /\ c.call = call)

Finished(i) == handlers[i].pc \in {"done", "rejected"}

\* The handler got as far as the rules: it passed the self-filter, had
\* metadata and parsed the configuration file.
ReachedRules(i) == handlers[i].jsonGp.readable

NotTheBot(inf) == inf.participant # botNumber

Issued(i, r, call) ==
    \E k \in 1..Len(outbound) :
        outbound[k].ev = i /\ outbound[k].rule = r /\ outbound[k].call = call

RemovalIssuedFor(i, p) ==
    \E k \in 1..Len(outbound) :
        outbound[k].ev = i /\ outbound[k].call = "remove" /\ outbound[k].who = <<p>>

BlacklistedAdd(i) ==
    /\ handlers[i].inf.action = "add"
    /\ NotTheBot(handlers[i].inf)
    /\ groupFile.readable
    /\ handlers[i].inf.participant \in groupFile.blacklist

\* C1 as stated, taken on the participants whose number does not even begin
\* with the bot's: every add event of a blacklisted participant ends with a
\* remove-participant call issued for that participant and no welcome message
\* sent.
C1_AsStated ==
    \A i \in EventIds :
        (Finished(i) /\ BlacklistedAdd(i) /\ ~IsSelf(handlers[i].inf)) =>
            /\ RemovalIssuedFor(i, handlers[i].inf.participant)
            /\ ~Issued(i, "welcome", "send")

\* C1 as amended: for an add event of a blacklisted participant other than the
\* bot, no welcome message is ever sent, whatever bemvindo is and whichever
\* calls fail; and once the handler has read the configuration and finished, a
\* remove-participant call was issued for that participant.
C1_BlacklistIsTerminal ==
    \A i \in EventIds :
        BlacklistedAdd(i) =>
            /\ ~Issued(i, "welcome", "send")
            /\ (Finished(i) /\ ReachedRules(i)) =>
                   RemovalIssuedFor(i, handlers[i].inf.participant)

\* A blacklisted join with bemvindo on whose blacklist removal failed, handled
\* to the end.
C1_Witness ==
    \E i \in EventIds :
        /\ Finished(i) /\ BlacklistedAdd(i) /\ ReachedRules(i)
        /\ handlers[i].jsonGp.bemvindo
        /\ \E k \in 1..Len(outbound) :
              /\ outbound[k].ev = i /\ outbound[k].rule = "blacklist"
              /\ outbound[k].call = "remove" /\ ~outbound[k].ok

\* The order the claim fixes: anti-fake, anti-pt, blacklist, welcome.
ClaimedRank(r) ==
    CASE r = "antifake" -> 1
      [] r = "antipt" -> 2
      [] r = "blacklist" -> 3
      [] r = "welcome" -> 4
      [] OTHER -> 0

\* C2: among the calls of one add event (participant not the bot), no call of
\* a later rule comes before a call of an earlier rule, the order being
\* anti-fake, anti-pt, blacklist, welcome.
C2_RuleOrder ==
    \A i \in EventIds :
        (handlers[i].inf.action = "add" /\ NotTheBot(handlers[i].inf)) =>
            LET calls == CallsOf(i) IN
            \A j, k \in 1..Len(calls) :
                j < k => ClaimedRank(calls[j].rule) <= ClaimedRank(calls[k].rule)

\* An add event that issued calls of two rules: anti-fake, then blacklist.
C2_Witness ==
    \E i \in EventIds :
        /\ handlers[i].inf.action = "add" /\ NotTheBot(handlers[i].inf)
        /\ Issued(i, "antifake", "send")
        /\ Issued(i, "blacklist", "remove")

AllCallsSucceeded(i) ==
    \A k \in 1..Len(outbound) : outbound[k].ev = i => outbound[k].ok

\* The messages that tell the group of a removal.
Notifications(i) ==
    SelectSeq(outbound, LAMBDA c :
        c.ev = i /\ c.call = "send" /\ c.rule \in {"antifake", "antipt", "blacklist"})

\* C3 as stated, taken on the events whose rules ran and whose calls all
\* succeeded: an add event with antifake on and a number outside 55/35 ends
\* with exactly one removal and exactly one removal notification, the
\* anti-fake one.
C3_AsStated ==
    \A i \in EventIds :
        (/\ Finished(i) /\ ReachedRules(i) /\ AllCallsSucceeded(i)
         /\ handlers[i].inf.action = "add" /\ NotTheBot(handlers[i].inf)
         /\ handlers[i].jsonGp.antifake
         /\ Substring(handlers[i].inf.participant, 2) \notin {<<5, 5>>, <<3, 5>>})
        => /\ Len(CallsOfKind(i, "remove")) = 1
           /\ Len(Notifications(i)) = 1
           /\ Notifications(i)[1].text = "removido por suspeita de numero falso"

\* The rules the blacklist rule's return cuts off.
CutOffByBlacklist(r, inf, jsonGp) ==
    BlacklistApplies(inf, jsonGp) /\ ClaimedRank(r) = 4

\* C4 as stated: when a handler has finished, every rule that applies to its
\* event and is not cut off by the blacklist return has issued its first call,
\* whichever earlier calls failed (the welcome rule with an image starts with
\* a profile-picture fetch and is left out).
C4_AsStated ==
    \A i \in EventIds :
        (Finished(i) /\ ReachedRules(i)) =>
            \A r \in {"x9", "antifake", "antipt", "blacklist", "welcome", "exit"} :
                (/\ Applies(r, handlers[i].inf, handlers[i].jsonGp)
                 /\ ~CutOffByBlacklist(r, handlers[i].inf, handlers[i].jsonGp)
                 /\ ~(r = "welcome" /\ handlers[i].jsonGp.image # "none"))
                => \E k \in 1..Len(outbound) :
                       outbound[k].ev = i /\ outbound[k].rule = r

\* C5 as stated, for the membership handler: no handler ends with an error
\* nobody caught.
C5_AsStated ==
    \A i \in EventIds : handlers[i].pc # "rejected"

\* ------------------------------------------------ message intake: claims

\* The router was called for the k-th message of batch b.
Routed(b, k) ==
    {j \in 1..Len(intakeLog) :
        /\ intakeLog[j].batch = b /\ intakeLog[j].idx = k
        /\ intakeLog[j].via \in {"primary", "secondary"}}

RouterNeverThrew == \A b \in 1..Len(upserts) : upserts[b].caught # "router"

\* C6 as stated, taken on the runs in which the router itself never throws:
\* when the handler of a notify batch has ended, every message of the batch
\* with a payload and a chat id was forwarded to the router exactly once, in
\* single and in dual mode.
C6_AsStated ==
    \A b \in 1..Len(upserts) :
        (RouterNeverThrew /\ upserts[b].type = "notify" /\ upserts[b].pc = "done") =>
            \A k \in 1..Len(upserts[b].messages) :
                Qualifies(upserts[b].messages[k]) => Cardinality(Routed(b, k)) = 1

SecondaryIsOpen ==
    secondaryNazunaSock # 0 /\ socks[secondaryNazunaSock].conn = "open"

\* C7 as stated: in dual mode with both sessions open the messages the intake
\* takes up go through the primary and the secondary in turn, the first
\* through the primary; with the secondary absent or not open they all go
\* through the primary.
C7_AsStated ==
    \A j \in 1..Len(intakeLog) :
        intakeLog[j].via =
            IF dualMode /\ SecondaryIsOpen /\ j % 2 = 0 THEN "secondary" ELSE "primary"

\* ----------------------------------------------- session manager: claims

DualReadyDeclared ==
    \E t \in 1..Len(tasks) : tasks[t].kind = "startNazu" /\ tasks[t].pc = "ready"

BothOpen(t) ==
    /\ tasks[t].sock # 0 /\ socks[tasks[t].sock].conn = "open"
    /\ SecondaryIsOpen

\* C8 as stated, at startup (before any close): dual-mode ready is declared
\* only with both sessions open, and once startNazu has returned with both
\* sessions open it has been declared.
C8_AsStated ==
    (dualMode /\ NumCloses = 0) =>
        \A t \in 1..Len(tasks) :
            tasks[t].kind = "startNazu" =>
                /\ tasks[t].pc = "ready" => BothOpen(t)
                /\ (tasks[t].pc = "done" /\ BothOpen(t)) => DualReadyDeclared

\* C9 as stated: a close handler of the primary session that has run to its
\* end, whatever the reason code, has started a new bootstrap of the primary.
C9_AsStated ==
    \A t \in 1..Len(tasks) :
        (/\ tasks[t].kind = "close" /\ tasks[t].role = "primary"
         /\ tasks[t].pc \in {"done", "rejected"})
        => tasks[t].started

\* C10 as stated: between a close with a logged-out reason and the next
\* bootstrap of the same session the session's directory is deleted, and a
\* directory is deleted only after a logged-out close of its own session.
C10_AsStated ==
    \A k \in 1..Len(journal) :
        /\ journal[k].what = "bootstrap" =>
              \A j \in 1..(k - 1) :
                  (/\ journal[j].what = "close" /\ journal[j].role = journal[k].role
                   /\ journal[j].reason \in {401})
                  => \E m \in (j + 1)..(k - 1) :
                         journal[m].what = "deleted" /\ journal[m].role = journal[k].role
        /\ journal[k].what = "deleted" =>
              \E j \in 1..(k - 1) :
                  /\ journal[j].what = "close" /\ journal[j].role = journal[k].role
                  /\ journal[j].reason \in {401}

\* The sessions of a role that exist: created and not closed.
Live(role) == {s \in 1..Len(socks) : socks[s].role = role /\ socks[s].conn # "close"}

\* C11 as stated: at no time do two primary sessions, or two secondary
\* sessions, exist together.
C11_AsStated ==
    \A role \in Roles : Cardinality(Live(role)) <= 1

SocksOf(role) == {s \in 1..Len(socks) : socks[s].role = role}

ClosesOf(role) == {t \in 1..Len(tasks) : tasks[t].kind = "close" /\ tasks[t].role = role}

\* C12 as stated, by its count: a session of a role is created at startup or
\* by the reconnect that follows a close of that same role, so a role has had
\* at most one session more than it has had closes; a close of the other role
\* creates none.
C12_AsStated ==
    \A role \in Roles :
        Cardinality(SocksOf(role)) <= 1 + Cardinality(ClosesOf(role))

\* --------------------------------------- policy engine: claims, continued

\* C13 as stated, taken on the calls that succeeded: the calls are issued
\* event by event, in delivery order: no call of an earlier event comes after
\* a call of a later one.
C13_AsStated ==
    \A j, k \in 1..Len(outbound) :
        (j < k /\ outbound[j].ok /\ outbound[k].ok) =>
            outbound[j].ev <= outbound[k].ev

\* C14: an event whose first participant is the session's own identity is
\* dropped at once: its handler has ended having looked nothing up, fetched
\* nothing, read no configuration and issued no call.
C14_SelfIsIgnored ==
    \A i \in EventIds :
        handlers[i].inf.participant = botNumber =>
            /\ handlers[i].pc = "done"
            /\ handlers[i].got = NoLookup
            /\ handlers[i].groupMetadata = NoMeta
            /\ handlers[i].jsonGp = NoConfig
            /\ CallsOf(i) = <<>>

\* The bot's own join, with the cache empty and the welcome on: everything
\* another participant's join would need a fetch, a read and a send for.
C14_Witness ==
    \E i \in EventIds :
        /\ handlers[i].inf.participant = botNumber
        /\ handlers[i].inf.action = "add"
        /\ CacheGet = NoMeta
        /\ groupFile.readable /\ groupFile.bemvindo

\* C15 as stated: the handler of an event whose participant is not the bot,
\* which no failed metadata fetch stopped and whose group has a readable
\* file, has evaluated the rules, and has sent the farewell if that applies.
C15_AsStated ==
    \A i \in EventIds :
        (/\ Finished(i) /\ NotTheBot(handlers[i].inf)
         /\ handlers[i].groupMetadata # NullMeta
         /\ groupFile.readable)
        => /\ ReachedRules(i)
           /\ Applies("exit", handlers[i].inf, groupFile) => Issued(i, "exit", "send")

IsRoleChange(inf) == inf.action \in {"promote", "demote"}

\* The one call of a role-change event: the announcement, naming and
\* mentioning the participant and the author, `alguém` for no author.
IsAnnouncement(i) ==
    LET calls == CallsOf(i)
        inf == handlers[i].inf
        by == IF inf.author = <<>> THEN <<0>> ELSE inf.author IN
    /\ Len(calls) = 1
    /\ calls[1].call = "send" /\ calls[1].rule = "x9"
    /\ calls[1].who = <<inf.participant, by>>
    /\ calls[1].names = <<inf.participant, by>>

\* C16 as stated, taken on the participants whose number does not begin with
\* the bot's: every promote or demote event of a group with x9 on ends with
\* exactly one call, the announcement.
C16_AsStated ==
    \A i \in EventIds :
        (/\ Finished(i) /\ IsRoleChange(handlers[i].inf)
         /\ ~IsSelf(handlers[i].inf)
         /\ groupFile.readable /\ groupFile.x9)
        => IsAnnouncement(i)

\* C16 as amended: a promote or demote event never issues a removal, and
\* when its handler has read a configuration with x9 on and has ended, it
\* issued exactly one call, the announcement.
C16_OneAnnouncement ==
    \A i \in EventIds :
        IsRoleChange(handlers[i].inf) =>
            /\ CallsOfKind(i, "remove") = <<>>
            /\ (Finished(i) /\ ReachedRules(i) /\ handlers[i].jsonGp.x9) => IsAnnouncement(i)

\* A promotion with no author, announced.
C16_Witness ==
    \E i \in EventIds :
        /\ Finished(i) /\ ReachedRules(i) /\ handlers[i].jsonGp.x9
        /\ handlers[i].inf.action = "promote"
        /\ handlers[i].inf.author = NoAuthor
        /\ Issued(i, "x9", "send")

\* C17: while the group's file is missing or unparseable, no call has been
\* issued and no handler has ended in an error or holds a configuration.
C17_NoConfigNoAction ==
    ~groupFile.readable =>
        /\ outbound = <<>>
        /\ \A i \in EventIds :
              handlers[i].pc # "rejected" /\ handlers[i].jsonGp = NoConfig

\* A join that had its metadata and ended at the unreadable file.
C17_Witness ==
    \E i \in EventIds :
        /\ ~groupFile.readable
        /\ Finished(i)
        /\ handlers[i].groupMetadata = TheMeta
        /\ handlers[i].inf.action = "add" /\ handlers[i].inf.participant = Fake

\* C18: the step that ends a handler's read of the group's file leaves the
\* handler with the file as it is at that step, whatever earlier handlers
\* read: its configuration and the rule it goes to are the file's, and with
\* the file unreadable it ends.
C18_ReadFresh ==
    [][\A i \in 1..Len(handlers) :
          (handlers[i].pc = "readFile" /\ handlers'[i].pc # "readFile") =>
              IF groupFile.readable
              THEN /\ handlers'[i].jsonGp = groupFile
                   /\ handlers'[i].pc = EnterFrom(1, handlers[i].inf, groupFile)
              ELSE /\ handlers'[i].jsonGp = NoConfig
                   /\ handlers'[i].pc = "done"]_vars

\* Two joins of the same participant, the welcome switched off between them:
\* the first was welcomed, the second was not.
C18_Witness ==
    /\ Len(handlers) = 2
    /\ handlers[1].inf = handlers[2].inf
    /\ handlers[1].jsonGp.readable /\ handlers[1].jsonGp.bemvindo
    /\ Issued(1, "welcome", "send")
    /\ Finished(2)
    /\ handlers[2].jsonGp.readable /\ ~handlers[2].jsonGp.bemvindo
    /\ ~Issued(2, "welcome", "send")

\* C19: a handler whose lookup missed is at the fetch; the step that ends the
\* fetch either leaves the handler with the metadata, the cache holding it
\* and the handler at the read of the file, or (the fetch failed) leaves the
\* cache as it was and the handler ended; neither issues a call, and a
\* handler whose fetch failed never ends in an error.
C19_FetchOnMiss ==
    [][\A i \in 1..Len(handlers') :
          /\ (i > Len(handlers) /\ handlers'[i].got = NoMeta) =>
                 handlers'[i].pc = "groupMetadata"
          /\ (/\ i <= Len(handlers) /\ handlers[i].pc = "groupMetadata"
              /\ handlers'[i].pc # "groupMetadata") =>
                 /\ outbound' = outbound
                 /\ \/ /\ handlers'[i].groupMetadata = TheMeta
                       /\ CacheGet' = TheMeta
                       /\ handlers'[i].pc = "readFile"
                    \/ /\ handlers'[i].groupMetadata = NullMeta
                       /\ cacheVars' = cacheVars
                       /\ handlers'[i].pc = "done"
          /\ handlers'[i].groupMetadata = NullMeta =>
                 /\ handlers'[i].pc = "done"
                 /\ \A k \in 1..Len(outbound') : outbound'[k].ev # i]_vars

\* A join whose lookup missed and whose fetch succeeded: the cache holds the
\* metadata and the handler went on to the rules with it.
C19_Witness ==
    \E i \in EventIds :
        /\ handlers[i].got = NoMeta
        /\ handlers[i].groupMetadata = TheMeta
        /\ CacheGet = TheMeta
        /\ ReachedRules(i)
        /\ Issued(i, "welcome", "send")

\* C20: a lookup made less than five minutes after the last set returned the
\* metadata; a lookup made more than five minutes after it, or with no set
\* before it, returned absent, whatever lookups were made in between.
C20_WriteBasedExpiry ==
    \A i \in EventIds :
        handlers[i].got # NoLookup =>
            LET since == handlers[i].getAt - handlers[i].lastSetAt IN
            /\ (handlers[i].lastSetAt # NeverSet /\ since < 5 * 60) =>
                   handlers[i].got = TheMeta
            /\ (handlers[i].lastSetAt = NeverSet \/ since > 5 * 60) =>
                   handlers[i].got = NoMeta

\* Two lookups after the same set, none in between: the first, within five
\* minutes, returned the metadata and the second, after them, absent.
C20_Witness ==
    /\ Len(handlers) = 2
    /\ handlers[1].lastSetAt # NeverSet
    /\ handlers[1].lastSetAt = handlers[2].lastSetAt
    /\ handlers[1].got = TheMeta
    /\ handlers[2].got = NoMeta

\* ---------------------------------------- message intake: claims, continued

\* The payload of the last message with this id the intake took up.
LastPayload(log, id) ==
    LET at == {j \in 1..Len(log) : log[j].id = id} IN
    log[CHOOSE j \in at : \A k \in at : k <= j].message

\* C21: a lookup of an id right after a message with that id was taken up
\* returns that message's payload, an id the cache holds has the payload of
\* the last message taken up with it, and a step that changes the cache
\* without taking a message up (the clear timer) leaves it empty.
C21_LatestPayloadThenEmpty ==
    [][/\ \A j \in 1..Len(intakeLog') : intakeLog'[j].cached = intakeLog'[j].message
       /\ \A id \in MsgIds :
             /\ messagesCache'[id] # NoPayload =>
                    /\ \E j \in 1..Len(intakeLog') : intakeLog'[j].id = id
                    /\ messagesCache'[id] = LastPayload(intakeLog', id)
             /\ (\E j \in (Len(intakeLog) + 1)..Len(intakeLog') : intakeLog'[j].id = id) =>
                    messagesCache'[id] = LastPayload(intakeLog', id)
       /\ (intakeLog' = intakeLog /\ messagesCache' # messagesCache) =>
              messagesCache' = EmptyCache]_vars

\* Two messages with the same id and different payloads were taken up, and
\* the cache holds the later one's.
C21_Witness ==
    \E j, k \in 1..Len(intakeLog) :
        /\ j < k /\ k = Len(intakeLog)
        /\ intakeLog[j].id = intakeLog[k].id
        /\ intakeLog[j].message # intakeLog[k].message
        /\ messagesCache[intakeLog[k].id] = intakeLog[k].message

\* The k-th message of batch b is one the intake may take up.
MayTakeUp(b, k) ==
    /\ upserts[b].type = "notify"
    /\ upserts[b].messages[k].message # NoPayload
    /\ upserts[b].messages[k].remoteJid

\* C22: every message the intake took up (cached, and forwarded or about to
\* be) is a message with a payload and a chat id of a notify batch, and every
\* payload the cache holds is that of such a message.
C22_OnlyLiveMessages ==
    /\ \A j \in 1..Len(intakeLog) :
          /\ MayTakeUp(intakeLog[j].batch, intakeLog[j].idx)
          /\ upserts[intakeLog[j].batch].messages[intakeLog[j].idx].id = intakeLog[j].id
          /\ upserts[intakeLog[j].batch].messages[intakeLog[j].idx].message
                 = intakeLog[j].message
    /\ \A id \in MsgIds :
          messagesCache[id] # NoPayload =>
              \E b \in 1..Len(upserts) : \E k \in 1..Len(upserts[b].messages) :
                  /\ MayTakeUp(b, k)
                  /\ upserts[b].messages[k].id = id
                  /\ upserts[b].messages[k].message = messagesCache[id]

\* A replayed batch and a live batch of a message without a chat id were both
\* handled to the end, and nothing was taken up.
C22_Witness ==
    /\ Len(upserts) = 2
    /\ upserts[1].type = "append" /\ Len(upserts[1].messages) = 2
    /\ upserts[1].messages[1].message # NoPayload /\ upserts[1].messages[1].remoteJid
    /\ upserts[2].type = "notify" /\ upserts[2].pc = "done"
    /\ Len(upserts[2].messages) = 1 /\ ~upserts[2].messages[1].remoteJid
    /\ intakeLog = <<>>
    /\ messagesCache = EmptyCache

\* The entries a step adds to the log that are router calls.
RouterCalls(before, after) ==
    {j \in (Len(before) + 1)..Len(after) : after[j].via \in {"primary", "secondary"}}

\* C32: a step in which the router is called for a message leaves the handler
\* suspended on that call with the cache mapping the message's id to the
\* message's payload, and a step that empties a cache holding something
\* calls no router.
C32_CachedWhenRouted ==
    [][/\ \A j \in RouterCalls(intakeLog, intakeLog') :
             /\ messagesCache'[intakeLog'[j].id] = intakeLog'[j].message
             /\ upserts'[intakeLog'[j].batch].pc = "router"
             /\ upserts'[intakeLog'[j].batch].idx = intakeLog'[j].idx
       /\ Cardinality(RouterCalls(intakeLog, intakeLog')) <= 1
       /\ (messagesCache # EmptyCache /\ messagesCache' = EmptyCache) =>
              RouterCalls(intakeLog, intakeLog') = {}]_vars

\* Two handlers are suspended on the router, the later one called for a
\* message with the id of the earlier one's and another payload, and the cache
\* holds the later payload.
C32_Witness ==
    \E j, k \in 1..Len(intakeLog) :
        /\ j < k /\ k = Len(intakeLog)
        /\ intakeLog[j].id = intakeLog[k].id
        /\ intakeLog[j].message # intakeLog[k].message
        /\ intakeLog[j].batch # intakeLog[k].batch
        /\ intakeLog[k].via = "primary"
        /\ upserts[intakeLog[k].batch].pc = "router"
        /\ upserts[intakeLog[j].batch].pc = "router"
        /\ messagesCache[intakeLog[k].id] = intakeLog[k].message

\* ------------------------------------------------ substitution: claims

Occurs(x, text) == \E k \in 1..Len(text) : text[k] = x

Count(x, text) == Cardinality({k \in 1..Len(text) : text[k] = x})

TokenFree(text) == \A k \in 1..Len(text) : text[k] \notin Tokens

\* A template with each placeholder replaced, position by position.
RECURSIVE Filled(_, _)
Filled(template, meta) ==
    IF template = <<>> THEN <<>>
    ELSE (CASE Head(template) = "#numerodele#" -> <<"@numero">>
            [] Head(template) = "#nomedogp#" -> meta.subject
            [] Head(template) = "#desc#" -> meta.desc
            [] Head(template) = "#membros#" -> <<ToString(meta.members)>>
            [] OTHER -> <<Head(template)>>)
         \o Filled(Tail(template), meta)

Counts == 0..(StartMembers + MaxEvents)

ShowsCount(c) == \E n \in Counts : Occurs(ToString(n), c.body)

IsGreeting(c) == c.call = "send" /\ c.rule \in {"welcome", "exit"}

\* C23 as stated, taken on the events in which no removal call was made: a
\* welcome or exit text that is sent and shows a participant count shows the
\* count the group has.
C23_AsStated ==
    \A k \in 1..Len(outbound) :
        (/\ IsGreeting(outbound[k]) /\ outbound[k].ok /\ ShowsCount(outbound[k])
         /\ \A j \in 1..k : outbound[j].call # "remove")
        => Occurs(ToString(outbound[k].members), outbound[k].body)

\* The welcome or exit text the group's settings call for: the group's own
\* text when it has more than one character, the default otherwise, each
\* placeholder filled in.
GreetingText(r, h) ==
    LET meta == Meta(Subject, Desc, h.members)
        own == IF r = "welcome" THEN h.jsonGp.textbv ELSE h.jsonGp.exitText
    IN  Filled(IF Chars(own) > 1 THEN own
               ELSE IF r = "welcome" THEN DefaultWelcome(meta) ELSE DefaultExit(meta),
               meta)

\* Call c is the welcome message of handler h: it mentions the participant
\* alone, carries the text called for, and is a text message with no image
\* configured, an image with the text as caption otherwise.
IsWelcomeMessage(c, h) ==
    /\ c.call = "send" /\ c.rule = "welcome"
    /\ c.who = <<h.inf.participant>>
    /\ c.body = GreetingText("welcome", h)
    /\ c.shape = (IF h.jsonGp.image = "none" THEN "text" ELSE "image")

\* An add event of a participant the handler does not take for the bot, its
\* configuration read with bemvindo on and the participant not blacklisted.
WelcomeDue(i) ==
    /\ handlers[i].inf.action = "add" /\ ~IsSelf(handlers[i].inf)
    /\ ReachedRules(i) /\ handlers[i].jsonGp.bemvindo
    /\ handlers[i].inf.participant \notin handlers[i].jsonGp.blacklist

WelcomeCalls(i) == SelectSeq(outbound, LAMBDA c : c.ev = i /\ c.rule = "welcome")

\* C25 as stated, taken on the groups with no welcome image: when the handler
\* of an add event with bemvindo on and a participant not blacklisted has
\* ended, it has sent exactly one welcome message, of the stated form.
C25_AsStated ==
    \A i \in EventIds :
        (Finished(i) /\ WelcomeDue(i) /\ handlers[i].jsonGp.image = "none")
        => /\ Len(WelcomeCalls(i)) = 1
           /\ IsWelcomeMessage(WelcomeCalls(i)[1], handlers[i])

\* The number's first three digits are 351.
Is351(inf) ==
    Len(inf.participant) >= 3
    /\ inf.participant[1] = 3 /\ inf.participant[2] = 5 /\ inf.participant[3] = 1

\* Positions in outbound of event i's calls of rule r.
CallIndexes(i, r, call) ==
    {k \in 1..Len(outbound) :
        outbound[k].ev = i /\ outbound[k].rule = r /\ outbound[k].call = call}

\* The anti-PT removal call was issued and the notification after it.
RemovedAndNotified(i) ==
    \E k \in CallIndexes(i, "antipt", "remove"), n \in CallIndexes(i, "antipt", "send") :
        k < n

\* C26 as stated, taken on the events whose handler read a configuration with
\* antipt on: when the handler of an add event has ended, it has issued the
\* removal and then the notification if and only if the number begins 351.
C26_AsStated ==
    \A i \in EventIds :
        (/\ Finished(i) /\ handlers[i].inf.action = "add" /\ ~IsSelf(handlers[i].inf)
         /\ ReachedRules(i) /\ handlers[i].jsonGp.antipt)
        => (RemovedAndNotified(i) <=> Is351(handlers[i].inf))

\* C26 as amended: an anti-PT removal is issued only on an add event of a 351
\* number by a handler that read a configuration with antipt on, and at most
\* once; such a handler, once ended, has issued it; the notification is
\* issued only after a removal call that succeeded, and has been issued when
\* the handler of a succeeded removal has ended.
C26_RemovalIffPortugal ==
    \A i \in EventIds :
        LET inf == handlers[i].inf
            removals == CallIndexes(i, "antipt", "remove")
            notes == CallIndexes(i, "antipt", "send") IN
        /\ removals # {} =>
               /\ inf.action = "add" /\ Is351(inf)
               /\ ReachedRules(i) /\ handlers[i].jsonGp.antipt
               /\ Cardinality(removals) = 1
               /\ \A k \in removals : outbound[k].who = <<inf.participant>>
        /\ (/\ Finished(i) /\ inf.action = "add" /\ ~IsSelf(inf) /\ Is351(inf)
            /\ ReachedRules(i) /\ handlers[i].jsonGp.antipt)
           => removals # {}
        /\ \A n \in notes : \E k \in removals : k < n /\ outbound[k].ok
        /\ (Finished(i) /\ \E k \in removals : outbound[k].ok) => notes # {}

\* A 351 number joined a group with antipt on, was removed and the
\* notification was sent.
C26_Witness ==
    \E i \in EventIds :
        /\ Finished(i) /\ ReachedRules(i) /\ handlers[i].jsonGp.antipt
        /\ handlers[i].inf.action = "add" /\ handlers[i].inf.participant = Portugal
        /\ RemovedAndNotified(i)
        /\ \A k \in CallIndexes(i, "antipt", "send") : outbound[k].ok

\* The calls of event i are one exit message: it mentions the participant
\* alone, carries the exit text called for, and its image, if any, is the
\* configured URL.
IsExitMessage(i) ==
    LET calls == CallsOf(i)
        h == handlers[i] IN
    /\ Len(calls) = 1
    /\ calls[1].call = "send" /\ calls[1].rule = "exit"
    /\ calls[1].who = <<h.inf.participant>>
    /\ calls[1].body = GreetingText("exit", h)
    /\ calls[1].shape = (IF h.jsonGp.exitImage = "none" THEN "text" ELSE "image")
    /\ calls[1].image = h.jsonGp.exitImage
    /\ calls[1].image \in {"none", "url"}

\* C27 as stated, taken on the participants whose number does not begin with
\* the bot's: every remove event of a group with exit enabled ends with
\* exactly one call, the exit message.
C27_AsStated ==
    \A i \in EventIds :
        (/\ Finished(i) /\ handlers[i].inf.action = "remove"
         /\ ~IsSelf(handlers[i].inf)
         /\ groupFile.readable /\ groupFile.exitEnabled)
        => IsExitMessage(i)

\* C27 as amended: a remove event never issues a removal, never fetches a
\* profile picture and never renders a banner, and when its handler has read
\* a configuration with exit enabled and has ended, it issued exactly one
\* call, the exit message.
C27_OneExitMessage ==
    \A i \in EventIds :
        handlers[i].inf.action = "remove" =>
            /\ CallsOfKind(i, "remove") = <<>>
            /\ handlers[i].pc \notin {"welcomePic", "welcomeBuild"}
            /\ handlers[i].profilePic = "stock"
            /\ (Finished(i) /\ ReachedRules(i) /\ handlers[i].jsonGp.exitEnabled)
               => IsExitMessage(i)

\* A leave from a group with its own exit text and an exit image, the message
\* sent.
C27_Witness ==
    \E i \in EventIds :
        /\ Finished(i) /\ ReachedRules(i) /\ handlers[i].jsonGp.exitEnabled
        /\ handlers[i].inf.action = "remove"
        /\ handlers[i].jsonGp.exitImage = "url"
        /\ Chars(handlers[i].jsonGp.exitText) > 1
        /\ Issued(i, "exit", "send")
        /\ \A k \in CallIndexes(i, "exit", "send") : outbound[k].ok

\* An anti-fake or anti-pt removal call of event i succeeded.
RemovedByCountryRule(i) ==
    \E k \in 1..Len(outbound) :
        /\ outbound[k].ev = i /\ outbound[k].call = "remove" /\ outbound[k].ok
        /\ outbound[k].rule \in {"antifake", "antipt"}

\* C30 as stated, taken on the groups with no welcome banner: when the
\* handler of an add event in which anti-fake or anti-pt removed the
\* participant has ended, it has issued the blacklist removal for a
\* blacklisted participant, and the welcome message for one not blacklisted
\* in a group with bemvindo on.
C30_AsStated ==
    \A i \in EventIds :
        LET h == handlers[i] IN
        (/\ Finished(i) /\ h.inf.action = "add" /\ RemovedByCountryRule(i)
         /\ h.jsonGp.image # "banner")
        => /\ h.inf.participant \in h.jsonGp.blacklist
                => Issued(i, "blacklist", "remove")
           /\ (h.inf.participant \notin h.jsonGp.blacklist /\ h.jsonGp.bemvindo)
                => Issued(i, "welcome", "send")

\* ------------------------------------- session manager: claims, continued

\* C29 as stated: the process is ended only by the startNazu call made at
\* startup; a startNazu call made after a connection drop never ends it.
C29_AsStated ==
    \A t \in 1..Len(tasks) :
        (tasks[t].kind = "startNazu" /\ tasks[t].pc = "exited") => t = 1

\* A createBotSocket of the secondary is in progress or due: startNazu not
\* yet past it, a close handler of the secondary not yet ended.
SecondaryPending ==
    \E t \in 1..Len(tasks) :
        \/ tasks[t].kind = "startNazu" /\ tasks[t].pc \in {"primary", "secondary"}
        \/ /\ tasks[t].kind = "close" /\ tasks[t].role = "secondary"
           /\ tasks[t].pc \in {"rm", "timer", "reconnect"}

\* The secondary session was closed, none is live, and no deletion threw.
SecondaryLost ==
    /\ ~exited
    /\ ClosesOf("secondary") # {}
    /\ Live("secondary") = {}
    /\ \A t \in 1..Len(tasks) : tasks[t].pc # "rejected"

\* C31 as stated, taken on the runs in which no directory deletion throws:
\* while the process runs, a secondary that was closed and has no live
\* session gets a bootstrap attempt, or has a session again, in the end.
C31_AsStated ==
    [](SecondaryLost => <>(SecondaryPending \/ Live("secondary") # {} \/ exited))

\* ------------------------------------------------------ pairing: claims

DigitsOf(text) == {k \in 1..Len(text) : text[k] \in 0..9}

\* What is left of a text with its non-digits taken out, position by position.
RECURSIVE Stripped(_)
Stripped(text) ==
    IF text = <<>> THEN <<>>
    ELSE (IF Head(text) \in 0..9 THEN <<Head(text)>> ELSE <<>>) \o Stripped(Tail(text))

TenToFifteenDigits(text) == Cardinality(DigitsOf(text)) \in 10..15

Answered == pairing.pc \in {"request", "exited", "listening", "rejected"} /\ pairing.codeMode
                /\ ~pairing.registered

\* C28: a pairing code is requested at most once, only in code mode with no
\* registered credentials, for the answer's digits, and only when they are 10
\* to 15; an answer with fewer or more digits ends the process with status 1
\* and no request; an answer with 10 to 15 digits does not end it.
C28_PairingCodeOnlyForValidNumber ==
    /\ Len(pairing.requests) <= 1
    /\ \A k \in 1..Len(pairing.requests) :
          /\ pairing.codeMode /\ ~pairing.registered
          /\ pairing.requests[k] = Stripped(pairing.input)
          /\ TenToFifteenDigits(pairing.input)
    /\ Answered =>
          IF TenToFifteenDigits(pairing.input)
          THEN pairing.pc # "exited" /\ pairing.status = 0
          ELSE pairing.pc = "exited" /\ pairing.status = 1 /\ pairing.requests = <<>>
    /\ pairing.pc = "exited" => Answered

\* An answer written with a `+`, or with a blank and a dash, eleven digits
\* in all, and the pairing code requested for the digits.
C28_Witness ==
    /\ pairing.codeMode /\ ~pairing.registered
    /\ Len(pairing.input) > Cardinality(DigitsOf(pairing.input))
    /\ Cardinality(DigitsOf(pairing.input)) = 11
    /\ pairing.requests = <<Stripped(pairing.input)>>

\* ------------------------------------------------- self-update: claims

\* C33 as stated, its last clause: whenever the updater has exited with
\* failure after old files were cleaned, the backup directory exists.
C33_AsStated ==
    (updater.pc = "exit1" /\ updater.cleaned # "no") => updater.backupDir

====
